---- MODULE Spec2Model ----
(***************************************************************************)
(* GeordiLogger: the scan orchestrator (app.py scan_docker_logs), the log  *)
(* classifier boundary and the snippet extractor (analyzer.py), the        *)
(* abnormality store (db.py) and the scheduler routes that act on a scan   *)
(* (routes/scheduler_routes.py).                                           *)
(*                                                                         *)
(* Python str values are sequences of one-character strings, so that       *)
(* strip, upper, startswith, "in" and split are computed as Python         *)
(* computes them.  A dict is a function; dict equality in Python ignores   *)
(* insertion order, so the re-sorting of container_statuses by name leaves *)
(* the value of the map as modelled here unchanged.                        *)
(***************************************************************************)
EXTENDS Integers, Sequences, FiniteSets, TLC

\* ------------------------------------------------------------- bounds
\* Number of threads that may invoke scan_docker_logs.
MaxThreads == 2
\* Number of containers the container runtime may report.
MaxContainers == 2
\* Number of invocations of scan_docker_logs that pass the entry guard.
MaxCycles == 2

Threads == 1..MaxThreads
Containers == 1..MaxContainers

\* ------------------------------------------------------------- Python values
\* None where a str is expected (no str holds a multi-character element).
None == <<"None">>
\* None where a status name is expected.
NoStatus == "None"
\* None where a database id is expected (AUTOINCREMENT ids start at 1).
NoId == 0
\* None where a timestamp is expected (the clock starts at 1).
NoTime == 0

Min(S) == CHOOSE x \in S : \A y \in S : x <= y
Max(S) == CHOOSE x \in S : \A y \in S : x >= y

\* ------------------------------------------------------------- str methods
LowerLetters == <<"a","b","c","d","e","f","g","h","i","j","k","l","m","n","o","p","q","r","s","t","u","v","w","x","y","z">>
UpperLetters == <<"A","B","C","D","E","F","G","H","I","J","K","L","M","N","O","P","Q","R","S","T","U","V","W","X","Y","Z">>

UpperOf == [c \in {LowerLetters[k] : k \in 1..26} |->
               UpperLetters[CHOOSE k \in 1..26 : LowerLetters[k] = c]]
LowerOf == [c \in {UpperLetters[k] : k \in 1..26} |->
               LowerLetters[CHOOSE k \in 1..26 : UpperLetters[k] = c]]

UpperChar(c) == IF c \in DOMAIN UpperOf THEN UpperOf[c] ELSE c
LowerChar(c) == IF c \in DOMAIN LowerOf THEN LowerOf[c] ELSE c

\* str.upper()
Upper(s) == [i \in 1..Len(s) |-> UpperChar(s[i])]
\* str.lower()
Lower(s) == [i \in 1..Len(s) |-> LowerChar(s[i])]

IsSpace(c) == c \in {" ", "\n", "\t", "\r"}

\* str.strip()
Strip(s) ==
    LET keep == {i \in 1..Len(s) : ~IsSpace(s[i])}
    IN  IF keep = {} THEN <<>> ELSE SubSeq(s, Min(keep), Max(keep))

\* str.isspace()
IsSpaceStr(s) == Len(s) > 0 /\ \A i \in 1..Len(s) : IsSpace(s[i])

\* str.startswith(p)
StartsWith(s, p) == Len(s) >= Len(p) /\ SubSeq(s, 1, Len(p)) = p
\* str.endswith(p)
EndsWith(s, p) == Len(s) >= Len(p) /\ SubSeq(s, Len(s) - Len(p) + 1, Len(s)) = p

\* the positions at which p occurs in s
Occurrences(s, p) == {i \in 1..(Len(s) - Len(p) + 1) : SubSeq(s, i, i + Len(p) - 1) = p}
\* p in s
Contains(s, p) == \E i \in 1..(Len(s) - Len(p) + 1) : SubSeq(s, i, i + Len(p) - 1) = p

\* s.split(p, 1)[1], for p in s
AfterFirst(s, p) == SubSeq(s, Min(Occurrences(s, p)) + Len(p), Len(s))

\* s[:n]
Take(s, n) == SubSeq(s, 1, IF Len(s) < n THEN Len(s) ELSE n)

\* s.split('\n')
RECURSIVE SplitLines(_)
SplitLines(s) ==
    LET nl == {i \in 1..Len(s) : s[i] = "\n"}
    IN  IF nl = {} THEN <<s>>
        ELSE <<SubSeq(s, 1, Min(nl) - 1)>> \o SplitLines(SubSeq(s, Min(nl) + 1, Len(s)))

\* "\n".join(lines)
RECURSIVE JoinLines(_)
JoinLines(lines) ==
    IF Len(lines) = 0 THEN <<>>
    ELSE IF Len(lines) = 1 THEN lines[1]
    ELSE lines[1] \o <<"\n">> \o JoinLines(Tail(lines))

\* [x for x in seq if keep(x)], keep given as the set of kept positions
RECURSIVE SelectAt(_, _, _)
SelectAt(seq, keep, i) ==
    IF i > Len(seq) THEN <<>>
    ELSE (IF i \in keep THEN <<seq[i]>> ELSE <<>>) \o SelectAt(seq, keep, i + 1)

\* ------------------------------------------------------------- literals
\* "ERROR: "
ERROR_PREFIX == <<"E","R","R","O","R",":"," ">>
\* "NORMAL"
NORMAL == <<"N","O","R","M","A","L">>
\* "NORMAL."
NORMAL_DOT == <<"N","O","R","M","A","L",".">>
\* "Relevant Log(s):"
SNIPPET_PREFIX == <<"R","e","l","e","v","a","n","t"," ","L","o","g","(","s",")",":">>
\* "(No specific log line identified in analysis)"
PLACEHOLDER == <<"(","N","o"," ","s","p","e","c","i","f","i","c"," ","l","o","g"," ","l","i","n","e"," ","i","d","e","n","t","i","f","i","e","d"," ","i","n"," ","a","n","a","l","y","s","i","s",")">>
\* "(No log lines available for snippet)"
NO_LINES == <<"(","N","o"," ","l","o","g"," ","l","i","n","e","s"," ","a","v","a","i","l","a","b","l","e"," ","f","o","r"," ","s","n","i","p","p","e","t",")">>
\* "..."
ELLIPSIS == <<".",".",".">>
\* "{logs}"
LOGS_PLACEHOLDER == <<"{","l","o","g","s","}">>
\* "http://", "https://", "/api/"
HTTP_SCHEME == <<"h","t","t","p",":","/","/">>
HTTPS_SCHEME == <<"h","t","t","p","s",":","/","/">>

\* The strings analyze_logs_with_ollama returns on a failure.
\* "ERROR: Ollama model not configured. Check settings."
ERR_MODEL_NOT_CONFIGURED == <<"E","R","R","O","R",":"," ","O","l","l","a","m","a"," ","m","o","d","e","l"," ","n","o","t"," ","c","o","n","f","i","g","u","r","e","d","."," ","C","h","e","c","k"," ","s","e","t","t","i","n","g","s",".">>
\* "ERROR: Invalid analysis prompt configuration (missing '{logs}'). Check settings."
ERR_PROMPT_CONFIG == <<"E","R","R","O","R",":"," ","I","n","v","a","l","i","d"," ","a","n","a","l","y","s","i","s"," ","p","r","o","m","p","t"," ","c","o","n","f","i","g","u","r","a","t","i","o","n"," ","(","m","i","s","s","i","n","g"," ","'","{","l","o","g","s","}","'",")","."," ","C","h","e","c","k"," ","s","e","t","t","i","n","g","s",".">>
\* "ERROR: Ollama API URL is not set. Check settings."
ERR_URL_NOT_SET == <<"E","R","R","O","R",":"," ","O","l","l","a","m","a"," ","A","P","I"," ","U","R","L"," ","i","s"," ","n","o","t"," ","s","e","t","."," ","C","h","e","c","k"," ","s","e","t","t","i","n","g","s",".">>
\* "ERROR: Invalid Ollama API URL format."
ERR_URL_FORMAT == <<"E","R","R","O","R",":"," ","I","n","v","a","l","i","d"," ","O","l","l","a","m","a"," ","A","P","I"," ","U","R","L"," ","f","o","r","m","a","t",".">>
\* "ERROR: Ollama model '" and "' not found on the server."
ERR_MODEL_NOT_FOUND_A == <<"E","R","R","O","R",":"," ","O","l","l","a","m","a"," ","m","o","d","e","l"," ","'">>
ERR_MODEL_NOT_FOUND_B == <<"'"," ","n","o","t"," ","f","o","u","n","d"," ","o","n"," ","t","h","e"," ","s","e","r","v","e","r",".">>
\* "ERROR: Ollama endpoint not found (404) at "
ERR_ENDPOINT_NOT_FOUND == <<"E","R","R","O","R",":"," ","O","l","l","a","m","a"," ","e","n","d","p","o","i","n","t"," ","n","o","t"," ","f","o","u","n","d"," ","(","4","0","4",")"," ","a","t"," ">>
\* "ERROR: Ollama returned empty response"
ERR_EMPTY_RESPONSE == <<"E","R","R","O","R",":"," ","O","l","l","a","m","a"," ","r","e","t","u","r","n","e","d"," ","e","m","p","t","y"," ","r","e","s","p","o","n","s","e">>
\* "ERROR: Ollama request timed out after 300s" (OLLAMA_TIMEOUT is 300)
ERR_TIMED_OUT == <<"E","R","R","O","R",":"," ","O","l","l","a","m","a"," ","r","e","q","u","e","s","t"," ","t","i","m","e","d"," ","o","u","t"," ","a","f","t","e","r"," ","3","0","0","s">>
\* "ERROR: Ollama communication failed - "
ERR_COMMUNICATION == <<"E","R","R","O","R",":"," ","O","l","l","a","m","a"," ","c","o","m","m","u","n","i","c","a","t","i","o","n"," ","f","a","i","l","e","d"," ","-"," ">>
\* "ERROR: Invalid JSON response from Ollama"
ERR_INVALID_JSON == <<"E","R","R","O","R",":"," ","I","n","v","a","l","i","d"," ","J","S","O","N"," ","r","e","s","p","o","n","s","e"," ","f","r","o","m"," ","O","l","l","a","m","a">>
\* "ERROR: Unexpected analysis failure - "
ERR_UNEXPECTED == <<"E","R","R","O","R",":"," ","U","n","e","x","p","e","c","t","e","d"," ","a","n","a","l","y","s","i","s"," ","f","a","i","l","u","r","e"," ","-"," ">>

\* The phrases scan_docker_logs looks for in an "ERROR: " result.
\* "Ollama model not configured"
PHRASE_MODEL_NOT_CONFIGURED == <<"O","l","l","a","m","a"," ","m","o","d","e","l"," ","n","o","t"," ","c","o","n","f","i","g","u","r","e","d">>
\* "Invalid analysis prompt configuration"
PHRASE_PROMPT_CONFIG == <<"I","n","v","a","l","i","d"," ","a","n","a","l","y","s","i","s"," ","p","r","o","m","p","t"," ","c","o","n","f","i","g","u","r","a","t","i","o","n">>
\* "Ollama API URL is not set"
PHRASE_URL_NOT_SET == <<"O","l","l","a","m","a"," ","A","P","I"," ","U","R","L"," ","i","s"," ","n","o","t"," ","s","e","t">>
\* "Ollama model"
PHRASE_OLLAMA_MODEL == <<"O","l","l","a","m","a"," ","m","o","d","e","l">>
\* "not found on the server"
PHRASE_NOT_ON_SERVER == <<"n","o","t"," ","f","o","u","n","d"," ","o","n"," ","t","h","e"," ","s","e","r","v","e","r">>
\* "Ollama endpoint not found"
PHRASE_ENDPOINT_NOT_FOUND == <<"O","l","l","a","m","a"," ","e","n","d","p","o","i","n","t"," ","n","o","t"," ","f","o","u","n","d">>
\* "Ollama request timed out"
PHRASE_TIMED_OUT == <<"O","l","l","a","m","a"," ","r","e","q","u","e","s","t"," ","t","i","m","e","d"," ","o","u","t">>
\* "Could not connect to Ollama API"
PHRASE_COULD_NOT_CONNECT == <<"C","o","u","l","d"," ","n","o","t"," ","c","o","n","n","e","c","t"," ","t","o"," ","O","l","l","a","m","a"," ","A","P","I">>
\* "Ollama API request failed"
PHRASE_REQUEST_FAILED == <<"O","l","l","a","m","a"," ","A","P","I"," ","r","e","q","u","e","s","t"," ","f","a","i","l","e","d">>
\* "Ollama communication failed"
PHRASE_COMMUNICATION == <<"O","l","l","a","m","a"," ","c","o","m","m","u","n","i","c","a","t","i","o","n"," ","f","a","i","l","e","d">>
\* "Invalid JSON response from Ollama"
PHRASE_INVALID_JSON == <<"I","n","v","a","l","i","d"," ","J","S","O","N"," ","r","e","s","p","o","n","s","e"," ","f","r","o","m"," ","O","l","l","a","m","a">>
\* "Unexpected analysis failure"
PHRASE_UNEXPECTED == <<"U","n","e","x","p","e","c","t","e","d"," ","a","n","a","l","y","s","i","s"," ","f","a","i","l","u","r","e">>

\* "Ollama analysis call failed: "
CALL_FAILED == <<"O","l","l","a","m","a"," ","a","n","a","l","y","s","i","s"," ","c","a","l","l"," ","f","a","i","l","e","d",":"," ">>
\* "Failed to log abnormality to DB"
DB_LOG_FAILED == <<"F","a","i","l","e","d"," ","t","o"," ","l","o","g"," ","a","b","n","o","r","m","a","l","i","t","y"," ","t","o"," ","D","B">>
\* "Failed to check DB for existing abnormality"
DB_LOOKUP_FAILED == <<"F","a","i","l","e","d"," ","t","o"," ","c","h","e","c","k"," ","D","B"," ","f","o","r"," ","e","x","i","s","t","i","n","g"," ","a","b","n","o","r","m","a","l","i","t","y">>
\* "Unexpected DB error: "
DB_UNEXPECTED == <<"U","n","e","x","p","e","c","t","e","d"," ","D","B"," ","e","r","r","o","r",":"," ">>
\* "Inconsistent internal state after analysis"
INCONSISTENT == <<"I","n","c","o","n","s","i","s","t","e","n","t">>

\* ------------------------------------------------------------- analyzer.py
\* OLLAMA_TIMEOUT, the seconds named in the timeout message.
OLLAMA_TIMEOUT == 300
\* The length to which a snippet is cut.
SnippetCap == 500

\* db.DEFAULT_SETTINGS['analysis_prompt'], shortened to "Logs:\n{logs}": what
\* the analyzer reads of it is whether it holds the {logs} placeholder.
DEFAULT_ANALYSIS_PROMPT == <<"L","o","g","s",":","\n">> \o LOGS_PLACEHOLDER

\* What requests.post and response.json() do, as the analyzer tells the cases
\* apart: kind "ok" carries the 'response' field of the JSON body in text;
\* detail is str(e) of the exception raised in the other cases.
HttpKinds == {"ok", "not_found_model", "not_found", "timeout", "request_error", "bad_json", "unexpected"}

\* analyze_logs_with_ollama(logs, model_to_use, custom_prompt), with the module
\* globals DEFAULT_OLLAMA_MODEL and OLLAMA_API_URL it reads and the outcome
\* http of the request it sends.
analyze_logs_with_ollama(logs, model_to_use, custom_prompt, default_model, api_url, http) ==
    LET effective_model == IF model_to_use # None /\ model_to_use # <<>> THEN model_to_use ELSE default_model
        prompt_to_use == IF custom_prompt # None /\ custom_prompt # <<>> THEN custom_prompt ELSE DEFAULT_ANALYSIS_PROMPT
        analysis_text == Strip(http.text)
    IN  IF logs = <<>> \/ IsSpaceStr(logs) THEN NORMAL
        ELSE IF effective_model = None \/ effective_model = <<>> THEN ERR_MODEL_NOT_CONFIGURED
        ELSE IF ~Contains(prompt_to_use, LOGS_PLACEHOLDER) THEN ERR_PROMPT_CONFIG
        ELSE IF api_url = None \/ api_url = <<>> THEN ERR_URL_NOT_SET
        ELSE IF ~(StartsWith(api_url, HTTP_SCHEME) \/ StartsWith(api_url, HTTPS_SCHEME)) THEN ERR_URL_FORMAT
        ELSE IF http.kind = "not_found_model" THEN ERR_MODEL_NOT_FOUND_A \o effective_model \o ERR_MODEL_NOT_FOUND_B
        ELSE IF http.kind = "not_found" THEN ERR_ENDPOINT_NOT_FOUND \o api_url
        ELSE IF http.kind = "timeout" THEN ERR_TIMED_OUT
        ELSE IF http.kind = "request_error" THEN ERR_COMMUNICATION \o http.detail
        ELSE IF http.kind = "bad_json" THEN ERR_INVALID_JSON
        ELSE IF http.kind = "unexpected" THEN ERR_UNEXPECTED \o http.detail
        ELSE IF Upper(analysis_text) = NORMAL \/ Upper(analysis_text) = NORMAL_DOT THEN NORMAL
        ELSE IF analysis_text = <<>> THEN ERR_EMPTY_RESPONSE
        ELSE analysis_text

\* The keywords of the fallback search of extract_log_snippet.
keywords ==
    { <<"e","r","r","o","r">>, <<"w","a","r","n","i","n","g">>, <<"f","a","i","l","e","d">>,
      <<"e","x","c","e","p","t","i","o","n">>, <<"c","r","i","t","i","c","a","l">>,
      <<"t","r","a","c","e","b","a","c","k">>, <<"f","a","t","a","l">>, <<"r","e","f","u","s","e","d">>,
      <<"d","e","n","i","e","d">>, <<"u","n","a","u","t","h","o","r","i","z","e","d">>,
      <<"t","i","m","e","o","u","t">>, <<"u","n","a","v","a","i","l","a","b","l","e">> }

\* s[:500], with "..." appended when s is longer
Capped(s) == Take(s, SnippetCap) \o (IF Len(s) > SnippetCap THEN ELLIPSIS ELSE <<>>)

\* A snippet that is the whole of the analysis text.
extract_whole_analysis(analysis_result, full_logs) == Strip(analysis_result)

\* A snippet search that takes the first keyword line of the logs where the
\* function takes the last.
extract_first_keyword_line(analysis_result, full_logs) ==
    LET by_prefix ==
            IF Contains(analysis_result, SNIPPET_PREFIX)
            THEN Capped(Strip(AfterFirst(analysis_result, SNIPPET_PREFIX)))
            ELSE PLACEHOLDER
        log_lines == SplitLines(Strip(full_logs))
        matching == {i \in 1..Len(log_lines) :
                        /\ Strip(log_lines[i]) # <<>>
                        /\ \E kw \in keywords : Contains(Lower(Strip(log_lines[i])), kw)}
        stripped == [i \in 1..Len(log_lines) |-> Strip(log_lines[i])]
        non_empty_lines == SelectAt(stripped, {i \in 1..Len(log_lines) : stripped[i] # <<>>}, 1)
        last3 == SubSeq(non_empty_lines,
                        IF Len(non_empty_lines) > 3 THEN Len(non_empty_lines) - 2 ELSE 1,
                        Len(non_empty_lines))
        snippet ==
            IF ~StartsWith(by_prefix, <<"(">>) THEN by_prefix
            ELSE IF matching # {} THEN Capped(stripped[Min(matching)])
            ELSE IF Len(non_empty_lines) > 0 THEN Capped(JoinLines(last3))
            ELSE NO_LINES
    IN  Strip(snippet)

\* extract_log_snippet(analysis_result, full_logs)
extract_log_snippet(analysis_result, full_logs) ==
    LET by_prefix ==
            IF Contains(analysis_result, SNIPPET_PREFIX)
            THEN Capped(Strip(AfterFirst(analysis_result, SNIPPET_PREFIX)))
            ELSE PLACEHOLDER
        log_lines == SplitLines(Strip(full_logs))
        matching == {i \in 1..Len(log_lines) :
                        /\ Strip(log_lines[i]) # <<>>
                        /\ \E kw \in keywords : Contains(Lower(Strip(log_lines[i])), kw)}
        stripped == [i \in 1..Len(log_lines) |-> Strip(log_lines[i])]
        non_empty_lines == SelectAt(stripped, {i \in 1..Len(log_lines) : stripped[i] # <<>>}, 1)
        last3 == SubSeq(non_empty_lines,
                        IF Len(non_empty_lines) > 3 THEN Len(non_empty_lines) - 2 ELSE 1,
                        Len(non_empty_lines))
        snippet ==
            IF ~StartsWith(by_prefix, <<"(">>) THEN by_prefix
            ELSE IF matching # {} THEN Capped(stripped[Max(matching)])
            ELSE IF Len(non_empty_lines) > 0 THEN Capped(JoinLines(last3))
            ELSE NO_LINES
    IN  Strip(snippet)

\* ------------------------------------------------------------- db.py
\* A row of the abnormalities table; its id is its position in the table
\* (INTEGER PRIMARY KEY AUTOINCREMENT, and no row is ever deleted).
AbnormalityRow(container_name, container_id, log_snippet, ollama_analysis, first, last, status) ==
    [ container_name |-> container_name, container_id |-> container_id,
      log_snippet |-> log_snippet, ollama_analysis |-> ollama_analysis,
      first_detected_timestamp |-> first, last_detected_timestamp |-> last,
      status |-> status, resolution_notes |-> None ]

\* The ids of the rows of table with this key, the latest detection first
\* (ORDER BY last_detected_timestamp DESC LIMIT 1 takes one of the latest).
LatestOf(table, ids) == CHOOSE i \in ids : \A j \in ids :
    table[i].last_detected_timestamp >= table[j].last_detected_timestamp

RowsOfKey(table, container_id, log_snippet) ==
    {i \in 1..Len(table) : table[i].container_id = container_id /\ table[i].log_snippet = log_snippet}

\* get_abnormality_status(container_id, log_snippet): the status of the latest
\* row of the key, None when there is none or the query fails (db_ok false).
get_abnormality_status(table, container_id, log_snippet, db_ok) ==
    LET rows == RowsOfKey(table, container_id, log_snippet)
    IN  IF ~db_ok \/ rows = {} THEN NoStatus ELSE table[LatestOf(table, rows)].status

\* An upsert on a table without UNIQUE(container_id, log_snippet): a row is
\* inserted whenever the key has no unresolved row.
add_or_update_without_unique(table, container_name, container_id, log_snippet, ollama_analysis, now, db_ok) ==
    LET rows == RowsOfKey(table, container_id, log_snippet)
        unresolved == {i \in rows : table[i].status = "unresolved"}
        existing == LatestOf(table, unresolved)
    IN  IF ~db_ok THEN [table |-> table, record_id |-> NoId]
        ELSE IF unresolved # {}
        THEN [ table |-> [table EXCEPT ![existing].last_detected_timestamp = now,
                                       ![existing].ollama_analysis = ollama_analysis],
               record_id |-> existing ]
        ELSE [ table |-> Append(table, AbnormalityRow(container_name, container_id, log_snippet,
                                                      ollama_analysis, now, now, "unresolved")),
               record_id |-> Len(table) + 1 ]

\* An upsert that, refreshing an unresolved row, sets its first detection to
\* now as well.
add_or_update_resetting_first(table, container_name, container_id, log_snippet, ollama_analysis, now, db_ok) ==
    LET rows == RowsOfKey(table, container_id, log_snippet)
        unresolved == {i \in rows : table[i].status = "unresolved"}
        existing == LatestOf(table, unresolved)
    IN  IF ~db_ok THEN [table |-> table, record_id |-> NoId]
        ELSE IF unresolved # {}
        THEN [ table |-> [table EXCEPT ![existing].first_detected_timestamp = now,
                                       ![existing].last_detected_timestamp = now,
                                       ![existing].ollama_analysis = ollama_analysis],
               record_id |-> existing ]
        ELSE IF rows # {} THEN [table |-> table, record_id |-> NoId]
        ELSE [ table |-> Append(table, AbnormalityRow(container_name, container_id, log_snippet,
                                                      ollama_analysis, now, now, "unresolved")),
               record_id |-> Len(table) + 1 ]

\* An upsert that refreshes the time of an unresolved row and leaves its
\* analysis text as it was.
add_or_update_keeping_analysis(table, container_name, container_id, log_snippet, ollama_analysis, now, db_ok) ==
    LET rows == RowsOfKey(table, container_id, log_snippet)
        unresolved == {i \in rows : table[i].status = "unresolved"}
        existing == LatestOf(table, unresolved)
    IN  IF ~db_ok THEN [table |-> table, record_id |-> NoId]
        ELSE IF unresolved # {}
        THEN [ table |-> [table EXCEPT ![existing].last_detected_timestamp = now],
               record_id |-> existing ]
        ELSE IF rows # {} THEN [table |-> table, record_id |-> NoId]
        ELSE [ table |-> Append(table, AbnormalityRow(container_name, container_id, log_snippet,
                                                      ollama_analysis, now, now, "unresolved")),
               record_id |-> Len(table) + 1 ]

\* An upsert that looks for a row of the key whatever its status and reopens
\* the one it finds.
add_or_update_reopening(table, container_name, container_id, log_snippet, ollama_analysis, now, db_ok) ==
    LET rows == RowsOfKey(table, container_id, log_snippet)
        existing == LatestOf(table, rows)
    IN  IF ~db_ok THEN [table |-> table, record_id |-> NoId]
        ELSE IF rows # {}
        THEN [ table |-> [table EXCEPT ![existing].last_detected_timestamp = now,
                                       ![existing].ollama_analysis = ollama_analysis,
                                       ![existing].status = "unresolved"],
               record_id |-> existing ]
        ELSE [ table |-> Append(table, AbnormalityRow(container_name, container_id, log_snippet,
                                                      ollama_analysis, now, now, "unresolved")),
               record_id |-> Len(table) + 1 ]

\* add_or_update_abnormality(container_name, container_id, log_snippet,
\* ollama_analysis) at time now: the table it leaves and the id it returns.
\* An unresolved row of the key is refreshed; otherwise a row is inserted,
\* which UNIQUE(container_id, log_snippet) refuses when the key has a row:
\* sqlite3.IntegrityError, rollback, None.  db_ok false is any other
\* sqlite3.Error.
add_or_update_abnormality(table, container_name, container_id, log_snippet, ollama_analysis, now, db_ok) ==
    LET rows == RowsOfKey(table, container_id, log_snippet)
        unresolved == {i \in rows : table[i].status = "unresolved"}
        existing == LatestOf(table, unresolved)
    IN  IF ~db_ok THEN [table |-> table, record_id |-> NoId]
        ELSE IF unresolved # {}
        THEN [ table |-> [table EXCEPT ![existing].last_detected_timestamp = now,
                                       ![existing].ollama_analysis = ollama_analysis],
               record_id |-> existing ]
        ELSE IF rows # {} THEN [table |-> table, record_id |-> NoId]
        ELSE [ table |-> Append(table, AbnormalityRow(container_name, container_id, log_snippet,
                                                      ollama_analysis, now, now, "unresolved")),
               record_id |-> Len(table) + 1 ]

\* get_abnormality_by_id(abnormality_id): the row, NoId standing for "no row
\* or the query failed".
get_abnormality_by_id(table, abnormality_id, db_ok) ==
    IF db_ok /\ abnormality_id \in 1..Len(table) THEN abnormality_id ELSE NoId

\* update_abnormality_status(abnormality_id, status, notes) with notes None:
\* the table it leaves and what it returns.
update_abnormality_status(table, abnormality_id, status, db_ok) ==
    IF status \notin {"unresolved", "resolved", "ignored"} \/ ~db_ok
    THEN [table |-> table, success |-> FALSE]
    ELSE IF abnormality_id \in 1..Len(table)
    THEN [table |-> [table EXCEPT ![abnormality_id].status = status], success |-> TRUE]
    ELSE [table |-> table, success |-> FALSE]

\* get_last_known_status(container_id): the status and id of the latest row
\* of the container.
get_last_known_status(table, container_id, db_ok) ==
    LET rows == {i \in 1..Len(table) : table[i].container_id = container_id}
    IN  IF ~db_ok THEN [status |-> "db_error", id |-> NoId]
        ELSE IF rows = {} THEN [status |-> "no_history", id |-> NoId]
        ELSE [status |-> table[LatestOf(table, rows)].status, id |-> LatestOf(table, rows)]

\* ------------------------------------------------------------- inputs
\* container.name of the container with id c.
ContainerName(c) == <<"c", ToString(c)>>

\* "http://o", a configured ollama_api_url; "phi3", the default model.
OllamaUrl == <<"h","t","t","p",":","/","/","o">>
OllamaModel == <<"p","h","i","3">>
\* DEFAULT_SETTINGS['log_lines_to_fetch']
LogLinesToFetch == 100

\* The 'response' field of the classifier's JSON body:
\* "NORMAL.", "", "ERROR: timeout".
RawResponses ==
    { <<"N","O","R","M","A","L",".">>,
      <<>>,
      <<"E","R","R","O","R",":"," ","t","i","m","e","o","u","t">> }

\* What the classifier request does in one call: it answers, or it times
\* out.
HttpOutcomes ==
    {[kind |-> "ok", text |-> r, detail |-> <<>>] : r \in RawResponses}
    \cup {[kind |-> "timeout", text |-> <<>>, detail |-> <<>>]}

\* What container.logs returns, decoded: "INFO started\nWARN disk at 95%\n",
\* whitespace only, or a failure (fetch_container_logs returns None).
LogOutcomes ==
    { <<"I","N","F","O"," ","s","t","a","r","t","e","d","\n","W","A","R","N"," ","d","i","s","k"," ","a","t"," ","9","5","%","\n">>,
      <<" ","\n">>,
      None }

\* What docker_client.containers.get(container_id) does.
GetOutcomes == {"ok", "NotFound", "APIError"}

\* What docker_client.containers.list returns: some of the containers,
\* listed by id.
ContainerLists ==
    {l \in UNION {[1..n -> Containers] : n \in 0..MaxContainers} :
        \A i, j \in 1..Len(l) : i < j => l[i] < l[j]}

\* The containers listed: none, or one of them.
TriageLists == {l \in ContainerLists : Len(l) <= 1}

\* The settings the process may have loaded at start.
SettingsChoices ==
    {[ ollama_model |-> OllamaModel, ollama_api_url |-> u, analysis_prompt |-> DEFAULT_ANALYSIS_PROMPT,
       log_lines_to_fetch |-> LogLinesToFetch, ignored_containers_list |-> ig ] :
        u \in {OllamaUrl, <<>>}, ig \in {{}, {ContainerName(1)}}}

\* ------------------------------------------------------------- state
VARIABLES
    scan_status,         \* app.scan_status
    container_statuses,  \* app.container_statuses: container id -> entry
    app_settings,        \* app.app_settings
    analyzer_globals,    \* analyzer.OLLAMA_API_URL, analyzer.DEFAULT_OLLAMA_MODEL
    abnormalities,       \* the abnormalities table
    stop_scan_event,     \* getattr(current_app, 'stop_scan_event', None)
    clock,               \* what datetime.now returns, in ticks of one scan start
    cycles,              \* invocations that passed the entry guard
    th,                  \* the locals of each invocation of scan_docker_logs
    manage,              \* the locals of the POST /manage/<id> being handled
    settings_lock,       \* app.settings_lock: who holds it
    settings_post,       \* the locals of the POST /settings being handled
    trigger_response,    \* what the last manual scan trigger answered
    ai_health_summary,   \* app.ai_health_summary
    summary_task,        \* the locals of update_ai_health_summary
    snippet_call,        \* a call of extract_log_snippet: arguments and result
    summary_history      \* the summary_history table

vars == <<scan_status, container_statuses, app_settings, analyzer_globals, abnormalities,
          stop_scan_event, clock, cycles, th, manage,
          settings_lock, settings_post, trigger_response, ai_health_summary, summary_task,
          snippet_call, summary_history>>

\* scan_status['last_run_status']: the text and the counts it names.
RunStatus(text, processed, fetch, analysis, db) ==
    [text |-> text, processed |-> processed, fetch |-> fetch, analysis |-> analysis, db |-> db]

\* An entry of container_statuses.
Entry(name, status, last_checked, error_detail, db_id) ==
    [name |-> name, status |-> status, last_checked |-> last_checked,
     error_detail |-> error_detail, db_id |-> db_id]

NoEntry == Entry(None, NoStatus, NoTime, None, NoId)
NoSettings == [ ollama_model |-> None, ollama_api_url |-> None, analysis_prompt |-> None,
                log_lines_to_fetch |-> LogLinesToFetch, ignored_containers_list |-> {} ]
EmptyMap == [c \in {} |-> NoEntry]

\* The locals of scan_docker_logs before its first statement; start_map and
\* stop_seen record, for the properties, the published map when the entry
\* guard was passed and whether a stop was requested in the cycle before its
\* first loop iteration began; classifier_output records the 'response' text
\* the classifier returned in the last loop iteration (None when it returned
\* none or was not asked).
IdleLocals ==
    [ pc |-> "idle",
      settings_for_scan |-> NoSettings,
      running_containers_now |-> <<>>,
      containers_to_scan_ids |-> <<>>,
      containers_to_add |-> {},
      idx |-> 1,
      scan_results_temp |-> [c \in {} |-> [entry |-> NoEntry, remove |-> FALSE]],
      result_data |-> NoEntry,
      analysis_result |-> None,
      log_snippet |-> None,
      containers_processed |-> 0,
      fetch_errors_occurred |-> 0,
      analysis_errors_occurred |-> 0,
      db_errors_occurred |-> 0,
      start_map |-> EmptyMap,
      stop_seen |-> FALSE,
      classifier_output |-> None ]

\* t is about to run scan_docker_logs from its first statement: the scheduler
\* may call it, or a manual trigger has started it as a thread.
AtEntry(t) == th[t].pc \in {"idle", "spawned"}

InCycle(t) == ~AtEntry(t)

\* No POST /manage/<id> is being handled.
NoManage == [pc |-> "idle", abnormality_id |-> NoId, new_status |-> NoStatus,
             target_container_id |-> NoId]

\* No POST /settings is being handled.
NoSettingsPost == [pc |-> "idle", new_settings |-> <<>>, keys |-> <<>>]

\* No manual trigger has been answered.
NoResponse == [route |-> "None", answer |-> "None"]

\* ai_health_summary as the module defines it.
InitialSummary == [summary |-> "No summary generated yet.", last_updated |-> NoTime,
                   error |-> "None"]

\* update_ai_health_summary is not running.
NoSummaryTask ==
    [pc |-> "idle", summary_start_time |-> NoTime, ollama_url |-> None, requests |-> <<>>]

\* No call of extract_log_snippet is looked at.
NoSnippetCall == [analysis_result |-> None, full_logs |-> None, snippet |-> None]

\* The state of the process when it has been constructed and has loaded its
\* settings.
Constructed ==
    /\ scan_status = [running |-> FALSE, last_run_status |-> RunStatus("Not run yet", 0, 0, 0, 0),
                      next_run_time |-> "None"]
    /\ container_statuses = EmptyMap
    /\ app_settings \in SettingsChoices
    /\ analyzer_globals = [OLLAMA_API_URL |-> app_settings.ollama_api_url,
                           DEFAULT_OLLAMA_MODEL |-> app_settings.ollama_model]
    /\ abnormalities = <<>>
    /\ stop_scan_event = "None"
    /\ clock = 0
    /\ cycles = 0
    /\ th = [t \in Threads |-> IdleLocals]
    /\ manage = NoManage
    /\ settings_lock = "None"
    /\ settings_post = NoSettingsPost
    /\ trigger_response = NoResponse
    /\ ai_health_summary = InitialSummary
    /\ summary_task = NoSummaryTask
    /\ summary_history = <<>>

Init == Constructed /\ snippet_call = NoSnippetCall

\* ------------------------------------------------------------- scan_docker_logs
\* app.py never imports docker, so the name docker is unbound in it:
\* evaluating "except docker.errors.NotFound:" raises NameError, which leaves
\* the inner try of the container loop in place of the exception it was
\* matching.
DockerNameBound == FALSE

\* The entry guard when a scan is marked running: log and return.
EnterSkip(t) ==
    /\ AtEntry(t)
    /\ scan_status.running
    /\ th' = [th EXCEPT ![t] = IdleLocals]
    /\ UNCHANGED <<scan_status, container_statuses, app_settings, analyzer_globals, abnormalities,
                   stop_scan_event, clock, cycles, manage,
                   settings_lock, settings_post, trigger_response, ai_health_summary, summary_task, summary_history, snippet_call>>

\* The entry guard when no scan is marked running.
EnterStart(t) ==
    /\ AtEntry(t)
    /\ ~scan_status.running
    /\ cycles < MaxCycles
    /\ cycles' = cycles + 1
    /\ clock' = clock + 1
    /\ scan_status' = [scan_status EXCEPT !.running = TRUE,
                         !.last_run_status = RunStatus("Running scan...", 0, 0, 0, 0)]
    /\ th' = [th EXCEPT ![t] = [IdleLocals EXCEPT !.pc = "prep", !.start_map = container_statuses]]
    /\ UNCHANGED <<container_statuses, app_settings, analyzer_globals, abnormalities,
                   stop_scan_event, manage,
                   settings_lock, settings_post, trigger_response, ai_health_summary, summary_task, summary_history, snippet_call>>

\* A preparation failure that wipes the published map instead of leaving it.
PrepareFailedWiping(t) ==
    /\ th[t].pc = "prep"
    /\ settings_lock = "None"
    /\ scan_status' = [scan_status EXCEPT !.running = FALSE,
                         !.last_run_status = RunStatus("Error preparing scan", 0, 0, 0, 0)]
    /\ container_statuses' = EmptyMap
    /\ th' = [th EXCEPT ![t] = IdleLocals]
    /\ UNCHANGED <<app_settings, analyzer_globals, abnormalities, stop_scan_event, clock, cycles, manage,
                   settings_lock, settings_post, trigger_response, ai_health_summary, summary_task, summary_history, snippet_call>>

\* get_docker_client returns None or containers.list raises: the except of
\* the preparation.
PrepareFailed(t) ==
    /\ th[t].pc = "prep"
    /\ settings_lock = "None"
    /\ scan_status' = [scan_status EXCEPT !.running = FALSE,
                         !.last_run_status = RunStatus("Error preparing scan", 0, 0, 0, 0)]
    /\ th' = [th EXCEPT ![t] = IdleLocals]
    /\ UNCHANGED <<container_statuses, app_settings, analyzer_globals, abnormalities,
                   stop_scan_event, clock, cycles, manage,
                   settings_lock, settings_post, trigger_response, ai_health_summary, summary_task, summary_history, snippet_call>>

\* The settings are copied under settings_lock and the running containers
\* are listed.
PrepareListOver(t, lists) ==
    /\ th[t].pc = "prep"
    /\ settings_lock = "None"
    /\ \E l \in lists :
        th' = [th EXCEPT ![t].pc = "snap",
                         ![t].settings_for_scan =
                             [ ollama_model |-> app_settings.ollama_model,
                               ollama_api_url |-> app_settings.ollama_api_url,
                               analysis_prompt |-> app_settings.analysis_prompt,
                               log_lines_to_fetch |-> app_settings.log_lines_to_fetch,
                               ignored_containers_list |-> app_settings.ignored_containers_list ],
                         ![t].running_containers_now = l]
    /\ UNCHANGED <<scan_status, container_statuses, app_settings, analyzer_globals, abnormalities,
                   stop_scan_event, clock, cycles, manage,
                   settings_lock, settings_post, trigger_response, ai_health_summary, summary_task, summary_history, snippet_call>>

PrepareList(t) == PrepareListOver(t, ContainerLists)

running_container_ids_now(t) ==
    {th[t].running_containers_now[i] : i \in 1..Len(th[t].running_containers_now)}

\* The running containers that have a name and are not ignored, in the order
\* listed.
ToScan(running, ignored) ==
    SelectAt(running,
             {i \in 1..Len(running) :
                 ContainerName(running[i]) # <<>> /\ ContainerName(running[i]) \notin ignored},
             1)

\* The cache is copied under container_statuses_lock; the scan list and the
\* containers to add are worked out from the copy.
SnapshotCache(t) ==
    /\ th[t].pc = "snap"
    /\ LET current_cache_state == container_statuses
           to_scan == ToScan(th[t].running_containers_now, th[t].settings_for_scan.ignored_containers_list)
           to_add == {to_scan[i] : i \in 1..Len(to_scan)} \ DOMAIN current_cache_state
       IN  th' = [th EXCEPT ![t].pc = IF to_add = {} THEN "loop" ELSE "add",
                            ![t].containers_to_scan_ids = to_scan,
                            ![t].containers_to_add = to_add]
    /\ UNCHANGED <<scan_status, container_statuses, app_settings, analyzer_globals, abnormalities,
                   stop_scan_event, clock, cycles, manage,
                   settings_lock, settings_post, trigger_response, ai_health_summary, summary_task, summary_history, snippet_call>>

\* dict.update(other)
DictUpdate(d, other) ==
    [c \in DOMAIN d \cup DOMAIN other |-> IF c \in DOMAIN other THEN other[c] ELSE d[c]]

\* The newly discovered containers are added to the published map as pending.
AddDiscovered(t) ==
    /\ th[t].pc = "add"
    /\ container_statuses' =
           DictUpdate(container_statuses,
                      [c \in th[t].containers_to_add |->
                          Entry(ContainerName(c), "pending", NoTime, None, NoId)])
    /\ th' = [th EXCEPT ![t].pc = "loop"]
    /\ UNCHANGED <<scan_status, app_settings, analyzer_globals, abnormalities,
                   stop_scan_event, clock, cycles, manage,
                   settings_lock, settings_post, trigger_response, ai_health_summary, summary_task, summary_history, snippet_call>>

\* fetch_container_logs(container, num_lines), raw being what container.logs
\* gave (None: it raised).
fetch_container_logs(raw) ==
    IF raw = None THEN None
    ELSE IF Strip(raw) = <<>> THEN <<>>
    ELSE raw

\* The test scan_docker_logs applies to a result that starts with "ERROR: ".
IsInternalError(r) ==
    \/ Contains(r, PHRASE_MODEL_NOT_CONFIGURED)
    \/ Contains(r, PHRASE_PROMPT_CONFIG)
    \/ Contains(r, PHRASE_URL_NOT_SET)
    \/ (Contains(r, PHRASE_OLLAMA_MODEL) /\ Contains(r, PHRASE_NOT_ON_SERVER))
    \/ Contains(r, PHRASE_ENDPOINT_NOT_FOUND)
    \/ Contains(r, PHRASE_TIMED_OUT)
    \/ Contains(r, PHRASE_COULD_NOT_CONNECT)
    \/ Contains(r, PHRASE_REQUEST_FAILED)
    \/ Contains(r, PHRASE_COMMUNICATION)
    \/ Contains(r, PHRASE_INVALID_JSON)
    \/ Contains(r, PHRASE_UNEXPECTED)

\* An analysis stage that takes every result of the analyzer as a finding,
\* without looking for the failure phrases.
AnalyzeFetchedUnfiltered(settings, globals, logs, http) ==
    LET r == analyze_logs_with_ollama(logs, settings.ollama_model, settings.analysis_prompt,
                                      globals.DEFAULT_OLLAMA_MODEL, globals.OLLAMA_API_URL, http)
    IN  IF settings.ollama_api_url = None \/ settings.ollama_api_url = <<>> \/ logs = <<>>
        THEN [analysis_result |-> NORMAL, analysis_error |-> None, counted |-> 0]
        ELSE [analysis_result |-> r, analysis_error |-> None, counted |-> 0]

\* An analysis stage that asks the analyzer whether or not the endpoint
\* setting of the cycle is set.
AnalyzeFetchedIgnoringUrl(settings, globals, logs, http) ==
    LET r == analyze_logs_with_ollama(logs, settings.ollama_model, settings.analysis_prompt,
                                      globals.DEFAULT_OLLAMA_MODEL, globals.OLLAMA_API_URL, http)
    IN  IF logs # <<>>
        THEN IF http.kind = "raise"
             THEN [analysis_result |-> None, analysis_error |-> CALL_FAILED \o http.detail, counted |-> 1]
             ELSE IF StartsWith(r, ERROR_PREFIX) /\ IsInternalError(r)
             THEN [analysis_result |-> None, analysis_error |-> r, counted |-> 1]
             ELSE [analysis_result |-> r, analysis_error |-> None, counted |-> 0]
        ELSE [analysis_result |-> NORMAL, analysis_error |-> None, counted |-> 0]

\* A scan that reports logs with nothing in them as a failed analysis.
AnalyzeFetchedBlankIsError(settings, globals, logs, http) ==
    LET r == analyze_logs_with_ollama(logs, settings.ollama_model, settings.analysis_prompt,
                                      globals.DEFAULT_OLLAMA_MODEL, globals.OLLAMA_API_URL, http)
    IN  IF settings.ollama_api_url = None \/ settings.ollama_api_url = <<>>
        THEN [analysis_result |-> NORMAL, analysis_error |-> None, counted |-> 0]
        ELSE IF logs # <<>>
        THEN IF http.kind = "raise"
             THEN [analysis_result |-> None, analysis_error |-> CALL_FAILED \o http.detail, counted |-> 1]
             ELSE IF StartsWith(r, ERROR_PREFIX) /\ IsInternalError(r)
             THEN [analysis_result |-> None, analysis_error |-> r, counted |-> 1]
             ELSE [analysis_result |-> r, analysis_error |-> None, counted |-> 0]
        ELSE [analysis_result |-> None, analysis_error |-> NO_LINES, counted |-> 1]

\* "Analyze logs if fetched successfully": analysis_result and analysis_error
\* for the fetched logs, and whether analysis_errors_occurred is counted up.
AnalyzeFetched(settings, globals, logs, http) ==
    LET r == analyze_logs_with_ollama(logs, settings.ollama_model, settings.analysis_prompt,
                                      globals.DEFAULT_OLLAMA_MODEL, globals.OLLAMA_API_URL, http)
    IN  IF settings.ollama_api_url = None \/ settings.ollama_api_url = <<>>
        THEN [analysis_result |-> NORMAL, analysis_error |-> None, counted |-> 0]
        ELSE IF logs # <<>>
        THEN IF http.kind = "raise"
             THEN [analysis_result |-> None, analysis_error |-> CALL_FAILED \o http.detail, counted |-> 1]
             ELSE IF StartsWith(r, ERROR_PREFIX) /\ IsInternalError(r)
             THEN [analysis_result |-> None, analysis_error |-> r, counted |-> 1]
             ELSE [analysis_result |-> r, analysis_error |-> None, counted |-> 0]
        ELSE [analysis_result |-> NORMAL, analysis_error |-> None, counted |-> 0]

\* A test for NORMAL that takes it only with its period.
SaysNormalWithPeriod(analysis_result) == Upper(Strip(analysis_result)) = NORMAL_DOT

\* analysis_result.strip().upper().startswith("NORMAL")
SaysNormal(analysis_result) == StartsWith(Upper(Strip(analysis_result)), NORMAL)

\* "Update Status Based on Analysis": which branch is taken.
StatusBranch(a) ==
    IF a.analysis_error # None THEN "error_analysis"
    ELSE IF a.analysis_result # None /\ ~SaysNormal(a.analysis_result) THEN "abnormality"
    ELSE IF a.analysis_result # None /\ SaysNormal(a.analysis_result) THEN "healthy"
    ELSE "inconsistent"

\* The locals when the loop goes on to its next container.
NextContainer(loc) ==
    [loc EXCEPT !.pc = "loop", !.idx = @ + 1, !.result_data = NoEntry,
                !.analysis_result = None, !.log_snippet = None]

\* A store of the result that replaces db_id only by a new id, and so keeps
\* the link of a container found healthy.
StoreResultKeepingLink(loc, cid, new_status, error_detail, abnormality_db_id, now) ==
    LET data == [loc.result_data EXCEPT
                    !.status = new_status, !.last_checked = now, !.error_detail = error_detail,
                    !.db_id = IF abnormality_db_id # NoId THEN abnormality_db_id ELSE @]
    IN  [loc EXCEPT !.pc = "loop", !.idx = @ + 1, !.result_data = NoEntry,
                    !.analysis_result = None, !.log_snippet = None,
                    !.scan_results_temp = DictUpdate(@, cid :> [entry |-> data, remove |-> FALSE])]

\* "Store result for bulk update": result_data is filled and kept in
\* scan_results_temp; db_id is replaced only by a new id or when healthy.
StoreResult(loc, cid, new_status, error_detail, abnormality_db_id, now) ==
    LET data == [loc.result_data EXCEPT
                    !.status = new_status, !.last_checked = now, !.error_detail = error_detail,
                    !.db_id = IF abnormality_db_id # NoId \/ new_status = "healthy"
                              THEN abnormality_db_id ELSE @]
    IN  NextContainer([loc EXCEPT !.scan_results_temp =
                           DictUpdate(@, cid :> [entry |-> data, remove |-> FALSE])])

\* An exception exc raised in the inner try of the loop.  With docker bound
\* the three handlers would act; as it is unbound, NameError goes on to the
\* "except Exception" of the outer try.
InnerExcept(loc, cid, exc, now) ==
    IF ~DockerNameBound THEN [loc EXCEPT !.pc = "except"]
    ELSE IF exc = "NotFound"
    THEN NextContainer([loc EXCEPT !.scan_results_temp =
                            DictUpdate(@, cid :> [entry |-> NoEntry, remove |-> TRUE])])
    ELSE NextContainer([loc EXCEPT
             !.fetch_errors_occurred = @ + 1,
             !.scan_results_temp =
                 DictUpdate(@, cid :> [entry |-> [loc.result_data EXCEPT
                                                     !.status = "error_fetching_logs",
                                                     !.last_checked = now,
                                                     !.error_detail = <<"e">>],
                                       remove |-> FALSE])])

\* Whether analyze_logs_with_ollama gets as far as sending its request: none
\* of its early returns is taken, so a request that times out is reported as
\* timed out.
RequestSent(logs, model_to_use, custom_prompt, default_model, api_url) ==
    analyze_logs_with_ollama(logs, model_to_use, custom_prompt, default_model, api_url,
                             [kind |-> "timeout", text |-> <<>>, detail |-> <<>>]) = ERR_TIMED_OUT

\* The 'response' text the iteration receives from the classifier, None when
\* the logs are not fetched, the analysis is skipped or the request fails.
ReceivedOutput(settings, globals, g, logs, http) ==
    IF /\ g = "ok" /\ logs # None /\ logs # <<>>
       /\ settings.ollama_api_url # None /\ settings.ollama_api_url # <<>>
       /\ http.kind = "ok"
       /\ RequestSent(logs, settings.ollama_model, settings.analysis_prompt,
                      globals.DEFAULT_OLLAMA_MODEL, globals.OLLAMA_API_URL)
    THEN http.text ELSE None

\* One iteration of the container loop, up to the point where it has its
\* result or has to ask the store: the cache entry is read under the lock,
\* the container is fetched, its logs are read and analysed.
IterateWith(t, g, raw, http) ==
    LET loc0 == th[t]
        cid == loc0.containers_to_scan_ids[loc0.idx]
        logs == fetch_container_logs(raw)
        loc1 == [loc0 EXCEPT !.containers_processed = @ + 1,
                             !.classifier_output =
                                 IF cid \in DOMAIN container_statuses
                                 THEN ReceivedOutput(loc0.settings_for_scan, analyzer_globals, g, logs, http)
                                 ELSE None]
        loc2 == [loc1 EXCEPT !.result_data = container_statuses[cid]]
        a == AnalyzeFetched(loc0.settings_for_scan, analyzer_globals, logs, http)
        branch == StatusBranch(a)
    IN  IF cid \notin DOMAIN container_statuses
        THEN th' = [th EXCEPT ![t] = [loc1 EXCEPT !.idx = @ + 1]]
        ELSE IF g # "ok" \/ logs = None
        THEN th' = [th EXCEPT ![t] =
                      InnerExcept(loc2, cid, IF g # "ok" THEN g ELSE "ConnectionError", clock)]
        ELSE IF branch = "abnormality"
        THEN th' = [th EXCEPT ![t] =
                      [loc2 EXCEPT !.pc = "lookup",
                                   !.analysis_result = a.analysis_result,
                                   !.log_snippet = extract_log_snippet(Strip(a.analysis_result), logs)]]
        ELSE th' = [th EXCEPT ![t] =
                      StoreResult([loc2 EXCEPT !.analysis_errors_occurred =
                                      @ + a.counted + (IF branch = "inconsistent" THEN 1 ELSE 0)],
                                  cid,
                                  IF branch = "healthy" THEN "healthy" ELSE "error_analysis",
                                  IF branch = "healthy" THEN None
                                  ELSE IF branch = "error_analysis" THEN a.analysis_error
                                  ELSE INCONSISTENT,
                                  IF branch = "inconsistent" THEN loc2.result_data.db_id ELSE NoId,
                                  clock)]

\* The iteration with what the container runtime and the classifier do
\* drawn from the given outcomes.
IterateOver(t, gets, raws, https) ==
    /\ th[t].pc = "loop"
    /\ th[t].idx <= Len(th[t].containers_to_scan_ids)
    /\ \E g \in gets, raw \in raws, http \in https : IterateWith(t, g, raw, http)
    /\ UNCHANGED <<scan_status, container_statuses, app_settings, analyzer_globals, abnormalities,
                   stop_scan_event, clock, cycles, manage,
                   settings_lock, settings_post, trigger_response, ai_health_summary, summary_task, summary_history, snippet_call>>

Iterate(t) == IterateOver(t, GetOutcomes, LogOutcomes, HttpOutcomes)

\* What the store does when asked: it answers, or it fails with
\* sqlite3.Error.  ("raise", the connection that cannot be opened by get_db
\* outside any try of the db function, is drawn with UpsertOutcomes.)
DbOutcomes == {"ok", "error"}

\* A lookup that takes only an ignored record as handled.
LookupWithIgnoredOnly(t, out) ==
    LET loc == th[t]
        cid == loc.containers_to_scan_ids[loc.idx]
        existing_db_status == get_abnormality_status(abnormalities, cid, loc.log_snippet, out = "ok")
    IN  IF existing_db_status \in {"ignored"}
        THEN th' = [th EXCEPT ![t] = StoreResult(loc, cid, "healthy", None, NoId, clock)]
        ELSE th' = [th EXCEPT ![t].pc = "upsert"]

\* An abnormality was found: db.get_abnormality_status is asked for its key.
LookupWith(t, out) ==
    LET loc == th[t]
        cid == loc.containers_to_scan_ids[loc.idx]
        existing_db_status == get_abnormality_status(abnormalities, cid, loc.log_snippet, out = "ok")
    IN  IF out = "raise"
        THEN th' = [th EXCEPT ![t] = InnerExcept(loc, cid, "Exception", clock)]
        ELSE IF existing_db_status \in {"resolved", "ignored"}
        THEN th' = [th EXCEPT ![t] = StoreResult(loc, cid, "healthy", None, NoId, clock)]
        ELSE IF existing_db_status = "db_error"
        THEN th' = [th EXCEPT ![t] =
                      StoreResult([loc EXCEPT !.db_errors_occurred = @ + 1], cid,
                                  "error_db_lookup", DB_LOOKUP_FAILED, loc.result_data.db_id, clock)]
        ELSE th' = [th EXCEPT ![t].pc = "upsert"]

Lookup(t) ==
    /\ th[t].pc = "lookup"
    /\ \E out \in DbOutcomes : LookupWith(t, out)
    /\ UNCHANGED <<scan_status, container_statuses, app_settings, analyzer_globals, abnormalities,
                   stop_scan_event, clock, cycles, manage,
                   settings_lock, settings_post, trigger_response, ai_health_summary, summary_task, summary_history, snippet_call>>

\* What db.add_or_update_abnormality does when called: it answers, it fails
\* with sqlite3.Error inside its try, or get_db raises before the try.
UpsertOutcomes == DbOutcomes \cup {"raise"}

\* An upsert whose failure is reported as a failure of the analysis.
UpsertWithAnalysisError(t, out) ==
    LET loc == th[t]
        cid == loc.containers_to_scan_ids[loc.idx]
        r == add_or_update_abnormality(abnormalities, loc.result_data.name, cid, loc.log_snippet,
                                       loc.analysis_result, clock, out = "ok")
        failed == [loc EXCEPT !.analysis_errors_occurred = @ + 1]
    IN  IF out = "raise"
        THEN /\ th' = [th EXCEPT ![t] = StoreResult(failed, cid, "error_analysis", DB_UNEXPECTED, NoId, clock)]
             /\ abnormalities' = abnormalities
        ELSE IF r.record_id = NoId
        THEN /\ th' = [th EXCEPT ![t] = StoreResult(failed, cid, "error_analysis", DB_LOG_FAILED, NoId, clock)]
             /\ abnormalities' = r.table
        ELSE /\ th' = [th EXCEPT ![t] = StoreResult(loc, cid, "unhealthy", Strip(loc.analysis_result),
                                                    r.record_id, clock)]
             /\ abnormalities' = r.table

\* The key is unresolved or has no history: db.add_or_update_abnormality.
UpsertWith(t, out) ==
    LET loc == th[t]
        cid == loc.containers_to_scan_ids[loc.idx]
        r == add_or_update_abnormality(abnormalities, loc.result_data.name, cid, loc.log_snippet,
                                       loc.analysis_result, clock, out = "ok")
        failed == [loc EXCEPT !.db_errors_occurred = @ + 1]
    IN  IF out = "raise"
        THEN /\ th' = [th EXCEPT ![t] = StoreResult(failed, cid, "error_db_log", DB_UNEXPECTED, NoId, clock)]
             /\ abnormalities' = abnormalities
        ELSE IF r.record_id = NoId
        THEN /\ th' = [th EXCEPT ![t] = StoreResult(failed, cid, "error_db_log", DB_LOG_FAILED, NoId, clock)]
             /\ abnormalities' = r.table
        ELSE /\ th' = [th EXCEPT ![t] = StoreResult(loc, cid, "unhealthy", Strip(loc.analysis_result),
                                                    r.record_id, clock)]
             /\ abnormalities' = r.table

\* An upsert step that also writes the results held so far into the
\* published map.
UpsertPublishing(t) ==
    /\ th[t].pc = "upsert"
    /\ \E out \in DbOutcomes : UpsertWith(t, out)
    /\ container_statuses' =
           [c \in DOMAIN container_statuses |->
               IF c \in DOMAIN th'[t].scan_results_temp
               THEN th'[t].scan_results_temp[c].entry ELSE container_statuses[c]]
    /\ UNCHANGED <<scan_status, app_settings, analyzer_globals, stop_scan_event, clock, cycles, manage,
                   settings_lock, settings_post, trigger_response, ai_health_summary, summary_task, summary_history, snippet_call>>

\* The upsert with what the store does drawn from the given outcomes.
UpsertOver(t, outs) ==
    /\ th[t].pc = "upsert"
    /\ \E out \in outs : UpsertWith(t, out)
    /\ UNCHANGED <<scan_status, container_statuses, app_settings, analyzer_globals,
                   stop_scan_event, clock, cycles, manage,
                   settings_lock, settings_post, trigger_response, ai_health_summary, summary_task, summary_history, snippet_call>>

Upsert(t) == UpsertOver(t, DbOutcomes)

\* A bulk update that writes the results and removes the containers marked
\* for removal, and keeps the others whether they are running or not.
BulkUpdateKeepingStopped(map, results, running_ids) ==
    LET ids_to_remove == {c \in DOMAIN results : results[c].remove}
        kept == DOMAIN map \ ids_to_remove
    IN  [c \in kept |-> IF c \in DOMAIN results THEN results[c].entry ELSE map[c]]

\* A bulk update that writes the results but leaves a link the published
\* entry had when the result carries none.
BulkUpdateKeepingLink(map, results, running_ids) ==
    LET ids_to_remove == {c \in DOMAIN results : results[c].remove}
        kept == (DOMAIN map \ ids_to_remove) \cap running_ids
    IN  [c \in kept |->
            IF c \in DOMAIN results
            THEN [results[c].entry EXCEPT !.db_id = IF @ = NoId THEN map[c].db_id ELSE @]
            ELSE map[c]]

\* "Bulk Update Cache After Loop": the published map after the results are
\* written and the containers no longer running are removed.
BulkUpdate(map, results, running_ids) ==
    LET ids_to_remove == {c \in DOMAIN results : results[c].remove}
        kept == (DOMAIN map \ ids_to_remove) \cap running_ids
    IN  [c \in kept |-> IF c \in DOMAIN results THEN results[c].entry ELSE map[c]]

\* The loop is over: the bulk update under container_statuses_lock.
Publish(t) ==
    /\ th[t].pc = "loop"
    /\ th[t].idx > Len(th[t].containers_to_scan_ids)
    /\ container_statuses' = BulkUpdate(container_statuses, th[t].scan_results_temp,
                                        running_container_ids_now(t))
    /\ th' = [th EXCEPT ![t].pc = "final"]
    /\ UNCHANGED <<scan_status, app_settings, analyzer_globals, abnormalities,
                   stop_scan_event, clock, cycles, manage,
                   settings_lock, settings_post, trigger_response, ai_health_summary, summary_task, summary_history, snippet_call>>

\* "except Exception" of the main loop; its return runs the finally.
OuterExcept(t) ==
    /\ th[t].pc = "except"
    /\ scan_status' = [scan_status EXCEPT !.running = FALSE,
                         !.last_run_status = RunStatus("Scan failed: Unexpected error", 0, 0, 0, 0)]
    /\ th' = [th EXCEPT ![t].pc = "final"]
    /\ UNCHANGED <<container_statuses, app_settings, analyzer_globals, abnormalities,
                   stop_scan_event, clock, cycles, manage,
                   settings_lock, settings_post, trigger_response, ai_health_summary, summary_task, summary_history, snippet_call>>

\* job.next_run_time as the scheduler has it ("None" when the job is paused or
\* absent, which is not drawn: the scheduler is taken to be running).
NextRunTimes == {"scheduled"}

\* A finally that writes the final status but leaves running as it is.
FinalKeepingRunning(t) ==
    /\ th[t].pc = "final"
    /\ \E next_run_time \in NextRunTimes :
        scan_status' = [scan_status EXCEPT
                          !.last_run_status = RunStatus("Scan finished", th[t].containers_processed,
                                                        th[t].fetch_errors_occurred,
                                                        th[t].analysis_errors_occurred,
                                                        th[t].db_errors_occurred),
                          !.next_run_time = next_run_time]
    /\ th' = [th EXCEPT ![t] = IdleLocals]
    /\ UNCHANGED <<container_statuses, app_settings, analyzer_globals, abnormalities,
                   stop_scan_event, clock, cycles, manage,
                   settings_lock, settings_post, trigger_response, ai_health_summary, summary_task, summary_history, snippet_call>>

\* The finally of the main loop: "Final Scan Status Update".
Final(t) ==
    /\ th[t].pc = "final"
    /\ \E next_run_time \in NextRunTimes :
        scan_status' = [ running |-> FALSE,
                         last_run_status |-> RunStatus("Scan finished", th[t].containers_processed,
                                                       th[t].fetch_errors_occurred,
                                                       th[t].analysis_errors_occurred,
                                                       th[t].db_errors_occurred),
                         next_run_time |-> next_run_time ]
    /\ th' = [th EXCEPT ![t] = IdleLocals]
    /\ UNCHANGED <<container_statuses, app_settings, analyzer_globals, abnormalities,
                   stop_scan_event, clock, cycles, manage,
                   settings_lock, settings_post, trigger_response, ai_health_summary, summary_task, summary_history, snippet_call>>

\* The invocation has passed the entry guard and has not begun its first loop
\* iteration.
BeforeFirstIteration(t) ==
    th[t].pc \in {"prep", "snap", "add", "loop"} /\ th[t].containers_processed = 0

\* A /stop_scan that has an event to set: it sets it while a scan is marked
\* running.
stop_current_signalling ==
    /\ stop_scan_event' = IF scan_status.running THEN "set" ELSE stop_scan_event
    /\ th' = [t \in Threads |->
                IF scan_status.running /\ BeforeFirstIteration(t)
                THEN [th[t] EXCEPT !.stop_seen = TRUE] ELSE th[t]]
    /\ UNCHANGED <<scan_status, container_statuses, app_settings, analyzer_globals, abnormalities,
                   clock, cycles, manage,
                   settings_lock, settings_post, trigger_response, ai_health_summary, summary_task, summary_history, snippet_call>>

\* POST /stop_scan.  app never has a stop_scan_event attribute, so the
\* getattr gives None and nothing is signalled; were there an event, it
\* would be set while a scan is marked running.  stop_seen notes the request
\* in the cycles that had no loop iteration begun when it was made.
stop_current ==
    /\ stop_scan_event' = IF stop_scan_event # "None" /\ scan_status.running THEN "set"
                          ELSE stop_scan_event
    /\ th' = [t \in Threads |->
                IF scan_status.running /\ BeforeFirstIteration(t)
                THEN [th[t] EXCEPT !.stop_seen = TRUE] ELSE th[t]]
    /\ UNCHANGED <<scan_status, container_statuses, app_settings, analyzer_globals, abnormalities,
                   clock, cycles, manage,
                   settings_lock, settings_post, trigger_response, ai_health_summary, summary_task, summary_history, snippet_call>>

\* ------------------------------------------------------------- manage_abnormality
\* POST /manage/<abnormality_id> with form field new_status (notes left
\* empty): the row is read, its status is updated and committed; the cache
\* is brought in line in a second step, under container_statuses_lock.
ManageUpdate ==
    /\ manage.pc = "idle"
    /\ \E abnormality_id \in 1..Len(abnormalities),
          new_status \in {"resolved", "ignored", "unresolved"},
          read \in DbOutcomes, write \in DbOutcomes :
        LET abnormality == get_abnormality_by_id(abnormalities, abnormality_id, read = "ok")
            r == update_abnormality_status(abnormalities, abnormality_id, new_status, write = "ok")
        IN  IF abnormality = NoId
            THEN UNCHANGED <<abnormalities, manage>>
            ELSE /\ abnormalities' = r.table
                 /\ manage' = IF r.success
                               THEN [pc |-> "cache", abnormality_id |-> abnormality_id,
                                     new_status |-> new_status,
                                     target_container_id |-> abnormalities[abnormality].container_id]
                               ELSE manage
    /\ UNCHANGED <<scan_status, container_statuses, app_settings, analyzer_globals,
                   stop_scan_event, clock, cycles, th,
                   settings_lock, settings_post, trigger_response, ai_health_summary, summary_task, summary_history, snippet_call>>

\* A handler that links the container to a reopened record also when the
\* container is unhealthy already.
ManagedEntryRelinking(entry, new_status, abnormality_id) ==
    IF new_status \in {"resolved", "ignored"} /\ entry.status = "unhealthy"
    THEN [entry EXCEPT !.status = "awaiting_scan", !.db_id = abnormality_id]
    ELSE IF new_status = "unresolved"
    THEN [entry EXCEPT !.status = "unhealthy", !.db_id = abnormality_id]
    ELSE entry

\* The cache entry of the row's container after the status change.
ManagedEntry(entry, new_status, abnormality_id) ==
    IF new_status \in {"resolved", "ignored"} /\ entry.status = "unhealthy"
    THEN [entry EXCEPT !.status = "awaiting_scan", !.db_id = abnormality_id]
    ELSE IF new_status = "unresolved" /\ entry.status # "unhealthy"
    THEN [entry EXCEPT !.status = "unhealthy", !.db_id = abnormality_id]
    ELSE entry

ManageCache ==
    /\ manage.pc = "cache"
    /\ container_statuses' =
           [c \in DOMAIN container_statuses |->
               IF c = manage.target_container_id
               THEN ManagedEntry(container_statuses[c], manage.new_status, manage.abnormality_id)
               ELSE container_statuses[c]]
    /\ manage' = NoManage
    /\ UNCHANGED <<scan_status, app_settings, analyzer_globals, abnormalities,
                   stop_scan_event, clock, cycles, th,
                   settings_lock, settings_post, trigger_response, ai_health_summary, summary_task, summary_history, snippet_call>>

\* ------------------------------------------------------------- populate_initial_statuses
\* The entry populate_initial_statuses gives a listed container.  The store
\* reports the status of a row ('unresolved', 'resolved', 'ignored'), never
\* 'unhealthy', so the branch that keeps the link is not taken.
InitialEntry(table, c, db_ok) ==
    LET last == get_last_known_status(table, c, db_ok)
    IN  IF last.status \in {"resolved", "ignored"}
        THEN Entry(ContainerName(c), "awaiting_scan", NoTime, None, NoId)
        ELSE IF last.status = "unhealthy"
        THEN Entry(ContainerName(c), "unhealthy", NoTime, None, last.id)
        ELSE Entry(ContainerName(c), "pending", NoTime, None, NoId)

\* The process, having run a scan, is started again on the same database: the
\* state is as constructed and populate_initial_statuses fills the cache from
\* the running containers (none when the listing fails) and the store.
PopulateWith(l, db) ==
    /\ \A t \in Threads : th[t].pc = "idle"
    /\ manage.pc = "idle"
    /\ scan_status.last_run_status.text # "Not run yet"
    /\ LET listed == ToScan(l, app_settings.ignored_containers_list)
       IN  container_statuses' =
               [c \in {listed[i] : i \in 1..Len(listed)} |-> InitialEntry(abnormalities, c, db = "ok")]
    /\ scan_status' = [running |-> FALSE, last_run_status |-> RunStatus("Not run yet", 0, 0, 0, 0),
                       next_run_time |-> "None"]
    /\ UNCHANGED <<app_settings, analyzer_globals, abnormalities, stop_scan_event, clock, cycles,
                   th, manage,
                   settings_lock, settings_post, trigger_response, ai_health_summary, summary_task, summary_history, snippet_call>>

populate_initial_statuses == \E l \in TriageLists, db \in DbOutcomes : PopulateWith(l, db)

\* ------------------------------------------------------------- specification
\* The steps of an invocation that has passed the entry guard.
Proceed(t) ==
    \/ PrepareFailed(t)
    \/ PrepareList(t)
    \/ SnapshotCache(t)
    \/ AddDiscovered(t)
    \/ Iterate(t)
    \/ Lookup(t)
    \/ Upsert(t)
    \/ Publish(t)
    \/ OuterExcept(t)
    \/ Final(t)

Next ==
    \/ \E t \in Threads : EnterSkip(t)
    \/ \E t \in Threads : EnterStart(t)
    \/ \E t \in Threads : Proceed(t)
    \/ stop_current

Spec == Init /\ [][Next]_vars

\* Every external call returns or raises and the thread goes on: an
\* invocation that can take a step eventually takes one.
FairSpec == Spec /\ \A t \in Threads : WF_vars(Proceed(t))

\* ------------------------------------------------------------- triage
\* The program as it is deployed, with its operator: the scan runs as the
\* scheduler's job only (the manual triggers look up an attribute app never
\* has), abnormalities are managed from the UI, and the process may be
\* started again on its database.

\* max_instances of the scan job.
MaxInstances == 1
JobThreads == 1..MaxInstances

\* The 'response' field of the classifier's JSON body: "normal",
\* "Disk nearly full. Relevant Log(s): WARN disk at 95%",
\* "Disk full. Relevant Log(s): WARN disk at 95%", "Normal load, disk full".
WarnDiskAt95 == <<"W","A","R","N"," ","d","i","s","k"," ","a","t"," ","9","5","%">>
DiskNearlyFull ==
    <<"D","i","s","k"," ","n","e","a","r","l","y"," ","f","u","l","l","."," ">> \o SNIPPET_PREFIX
        \o <<" ">> \o WarnDiskAt95
DiskFull ==
    <<"D","i","s","k"," ","f","u","l","l","."," ">> \o SNIPPET_PREFIX \o <<" ">> \o WarnDiskAt95

TriageResponses ==
    { <<"n","o","r","m","a","l">>,
      DiskNearlyFull,
      DiskFull,
      <<"N","o","r","m","a","l"," ","l","o","a","d",","," ","d","i","s","k"," ","f","u","l","l">> }

TriageHttp ==
    {[kind |-> "ok", text |-> r, detail |-> <<>>] : r \in TriageResponses}
    \cup {[kind |-> "timeout", text |-> <<>>, detail |-> <<>>]}

\* The container's logs are read ("INFO started\nWARN disk at 95%\n"), or
\* containers.get fails.
TriageLogs == {raw \in LogOutcomes : raw # None /\ fetch_container_logs(raw) # <<>>}
TriageGets == {"ok", "APIError"}

TriageInit == Init /\ app_settings.ollama_api_url = OllamaUrl

TriageProceed(t) ==
    \/ PrepareFailed(t)
    \/ PrepareListOver(t, TriageLists)
    \/ SnapshotCache(t)
    \/ AddDiscovered(t)
    \/ IterateOver(t, TriageGets, TriageLogs, TriageHttp)
    \/ Lookup(t)
    \/ Upsert(t)
    \/ Publish(t)
    \/ OuterExcept(t)
    \/ Final(t)

TriageNext ==
    \/ \E t \in Threads : EnterSkip(t)
    \/ \E t \in JobThreads : EnterStart(t)
    \/ \E t \in JobThreads : TriageProceed(t)
    \/ ManageUpdate
    \/ ManageCache
    \/ populate_initial_statuses

TriageSpec == TriageInit /\ [][TriageNext]_vars

\* ------------------------------------------------------------- two kinds of issue
\* The scheduler's job and the operator, with a classifier that may report
\* two issues of a container, quoting a different log line for each:
\* "Disk full. Relevant Log(s): WARN disk at 95%" and
\* "Restarted. Relevant Log(s): INFO started".
InfoStarted == <<"I","N","F","O"," ","s","t","a","r","t","e","d">>
Restarted ==
    <<"R","e","s","t","a","r","t","e","d","."," ">> \o SNIPPET_PREFIX \o <<" ">> \o InfoStarted

ManageHttp ==
    {[kind |-> "ok", text |-> r, detail |-> <<>>] :
        r \in {<<"N","O","R","M","A","L">>, DiskFull, Restarted}}

ManageProceed(t) ==
    \/ PrepareFailed(t)
    \/ PrepareListOver(t, TriageLists)
    \/ SnapshotCache(t)
    \/ AddDiscovered(t)
    \/ IterateOver(t, TriageGets, TriageLogs, ManageHttp)
    \/ Lookup(t)
    \/ Upsert(t)
    \/ Publish(t)
    \/ OuterExcept(t)
    \/ Final(t)

ManageNext ==
    \/ \E t \in Threads : EnterSkip(t)
    \/ \E t \in JobThreads : EnterStart(t)
    \/ \E t \in JobThreads : ManageProceed(t)
    \/ ManageUpdate
    \/ ManageCache
    \/ populate_initial_statuses

ManageSpec == TriageInit /\ [][ManageNext]_vars

\* ------------------------------------------------------------- store failures
\* The scheduler's job with a store that may also fail to open: every
\* outcome of db.add_or_update_abnormality is drawn.
StoreProceed(t) ==
    \/ PrepareFailed(t)
    \/ PrepareList(t)
    \/ SnapshotCache(t)
    \/ AddDiscovered(t)
    \/ Iterate(t)
    \/ Lookup(t)
    \/ UpsertOver(t, UpsertOutcomes)
    \/ Publish(t)
    \/ OuterExcept(t)
    \/ Final(t)

StoreNext ==
    \/ \E t \in Threads : EnterSkip(t)
    \/ \E t \in JobThreads : EnterStart(t)
    \/ \E t \in JobThreads : StoreProceed(t)

StoreSpec == Init /\ [][StoreNext]_vars


\* ------------------------------------------------------------- POST /settings
\* "https://p", another endpoint the operator may enter.
OtherUrl == <<"h","t","t","p","s",":","/","/","p">>

\* What the form may carry in ollama_api_url and in ignored_containers.
FormUrls == {OllamaUrl, OtherUrl, <<>>}
FormIgnored == {{}, {ContainerName(1)}}

\* app never has an attribute 'analyzer': getattr(current_app, 'analyzer',
\* None) gives None and the saved value is not passed on to the analyzer
\* module.
AnalyzerAttached == FALSE

\* The validation of the form's ollama_api_url.
ValidUrl(value) ==
    value # <<>> /\ (StartsWith(value, HTTP_SCHEME) \/ StartsWith(value, HTTPS_SCHEME))

\* Whether the validated value of key differs from the cached one.
Changed(key, new_settings) ==
    IF key = "ollama_api_url"
    THEN app_settings.ollama_api_url = None
            \/ app_settings.ollama_api_url # new_settings.ollama_api_url
    ELSE app_settings.ignored_containers_list # new_settings.ignored_containers

\* The keys left to the save loop from the first one that has changed.
RECURSIVE FromFirstChanged(_, _)
FromFirstChanged(keys, new_settings) ==
    IF keys = <<>> THEN <<>>
    ELSE IF Changed(Head(keys), new_settings) THEN keys
    ELSE FromFirstChanged(Tail(keys), new_settings)

\* The form is validated; with no validation error settings_lock is taken
\* and the loop over the validated keys runs up to its first call of
\* db.set_setting (with no changed key the lock is released at once).
SettingsPostBegin ==
    /\ settings_post.pc = "idle"
    /\ settings_lock = "None"
    /\ \E url \in FormUrls, ignored \in FormIgnored :
        LET new_settings == [ollama_api_url |-> url, ignored_containers |-> ignored]
            keys == FromFirstChanged(<<"ollama_api_url", "ignored_containers">>, new_settings)
        IN  IF ~ValidUrl(url) \/ keys = <<>>
            THEN UNCHANGED <<settings_lock, settings_post>>
            ELSE /\ settings_lock' = "settings"
                 /\ settings_post' = [pc |-> "set_setting", new_settings |-> new_settings,
                                      keys |-> keys]
    /\ UNCHANGED <<scan_status, container_statuses, app_settings, analyzer_globals,
                   abnormalities, stop_scan_event, clock, cycles, th, manage,
                   trigger_response, ai_health_summary, summary_task, summary_history, snippet_call>>

\* db.set_setting(key, value) returns, settings_lock being held: on success
\* the cache is updated and the loop goes on to the next changed key; on
\* failure, and after the last key, the lock is released.
SettingsPostWrite ==
    /\ settings_post.pc = "set_setting"
    /\ \E out \in DbOutcomes :
        LET key == Head(settings_post.keys)
            new == settings_post.new_settings
            saved == IF key = "ollama_api_url"
                     THEN [app_settings EXCEPT !.ollama_api_url = new.ollama_api_url]
                     ELSE [app_settings EXCEPT !.ignored_containers_list = new.ignored_containers]
            rest == FromFirstChanged(Tail(settings_post.keys), new)
        IN  IF out # "ok"
            THEN /\ settings_lock' = "None"
                 /\ settings_post' = NoSettingsPost
                 /\ UNCHANGED <<app_settings, analyzer_globals>>
            ELSE /\ app_settings' = saved
                 /\ analyzer_globals' =
                        IF AnalyzerAttached /\ key = "ollama_api_url"
                        THEN [analyzer_globals EXCEPT !.OLLAMA_API_URL = new.ollama_api_url]
                        ELSE analyzer_globals
                 /\ IF rest = <<>>
                    THEN settings_lock' = "None" /\ settings_post' = NoSettingsPost
                    ELSE /\ settings_lock' = settings_lock
                         /\ settings_post' = [settings_post EXCEPT !.keys = rest]
    /\ UNCHANGED <<scan_status, container_statuses, abnormalities, stop_scan_event, clock,
                   cycles, th, manage, trigger_response, ai_health_summary, summary_task, summary_history,
                   snippet_call>>

SettingsNext ==
    \/ \E t \in Threads : EnterSkip(t)
    \/ \E t \in JobThreads : EnterStart(t)
    \/ \E t \in JobThreads : TriageProceed(t)
    \/ SettingsPostBegin
    \/ SettingsPostWrite

SettingsSpec == TriageInit /\ [][SettingsNext]_vars

\* ------------------------------------------------------------- manual triggers
\* app has the attributes scan_docker_logs_task and
\* update_ai_health_summary_task; the trigger routes look up
\* scan_docker_logs_func, which is never set.
ScanFuncAttached == FALSE

\* The threads a manual trigger may start.
ManualThreads == Threads \ JobThreads

\* POST /scheduler/trigger_scan (route "ui") and POST /api/scan/trigger with
\* a valid API key (route "api"): the answer, and the thread started.
TriggerScan(route) ==
    /\ IF scan_status.running
       THEN /\ trigger_response' = [route |-> route, answer |-> "already running"]
            /\ th' = th
       ELSE IF ~ScanFuncAttached
       THEN /\ trigger_response' = [route |-> route, answer |-> "unavailable"]
            /\ th' = th
       ELSE /\ trigger_response' = [route |-> route, answer |-> "triggered"]
            /\ \E t \in ManualThreads :
                  th[t].pc = "idle" /\ th' = [th EXCEPT ![t].pc = "spawned"]
    /\ UNCHANGED <<scan_status, container_statuses, app_settings, analyzer_globals,
                   abnormalities, stop_scan_event, clock, cycles, manage, settings_lock,
                   settings_post, ai_health_summary, summary_task, summary_history, snippet_call>>

trigger_scan_now == TriggerScan("ui")

api_trigger_scan == TriggerScan("api")

TriggerNext ==
    \/ \E t \in Threads : EnterSkip(t)
    \/ \E t \in Threads : (t \in JobThreads \/ th[t].pc = "spawned") /\ EnterStart(t)
    \/ \E t \in Threads : TriageProceed(t)
    \/ trigger_scan_now
    \/ api_trigger_scan

TriggerSpec == TriageInit /\ [][TriggerNext]_vars

\* ------------------------------------------------------------- update_ai_health_summary
\* What the task may leave in ai_health_summary.
SUMMARY_FAILED == "Error generating health summary."
URL_NOT_CONFIGURED == "Ollama API URL is not configured."
STABLE == "No unresolved issues detected in the last hours. System appears stable."
UNEXPECTED == "An unexpected error occurred"

\* MAX_SUMMARY_ISSUES: how many unresolved issues a summary may be about.
MAX_SUMMARY_ISSUES == 30

\* Whether analyzer.summarize_recent_abnormalities(abnormalities_list,
\* model_to_use=None) has the keywords the task calls it with
\* (abnormalities_data, api_url, model_name, prompt_template): it has not, so
\* the call raises TypeError before any request is made.
SummarizerTakesKeywords == FALSE

\* Whether the write of the cache under ai_summary_lock raises: three
\* assignments to keys of a dict, which cannot.
CacheWriteRaises == FALSE

\* What the classifier may answer to a summary request: an error text, an
\* empty text or a summary.
SummaryResponses ==
    {[error |-> TRUE, text |-> "Error: Ollama"], [error |-> FALSE, text |-> ""],
     [error |-> FALSE, text |-> "Two containers restart."]}
NO_SUMMARY_TEXT == "AI analysis returned no summary text and no error."

\* db.add_summary_history: one more record, its status derived from the
\* texts.
add_summary_history(table, timestamp, summary_text, error_text) ==
    Append(table, [timestamp |-> timestamp, summary_text |-> summary_text,
                   error_text |-> error_text,
                   status |-> IF error_text # "None" THEN "error"
                              ELSE IF summary_text # "None" THEN "success" ELSE "error"])

\* The cache as the finally of the task writes it under ai_summary_lock.
SummaryCache(final_summary, final_error, summary_start_time) ==
    IF final_error # "None"
    THEN [summary |-> SUMMARY_FAILED, error |-> final_error, last_updated |-> summary_start_time]
    ELSE [summary |-> final_summary, error |-> "None", last_updated |-> summary_start_time]

\* The finally of the task.  The block that saves the run to the history is
\* indented into the handler of a failure of the cache write, so it runs only
\* when that write raised.
SummaryFinally(final_summary, final_error, summary_start_time) ==
    /\ ai_health_summary' = SummaryCache(final_summary, final_error, summary_start_time)
    /\ summary_history' =
           IF CacheWriteRaises
           THEN add_summary_history(summary_history, summary_start_time,
                                    IF final_error = "None" THEN final_summary ELSE "None",
                                    final_error)
           ELSE summary_history

\* The task starts and copies its settings under settings_lock; with no
\* endpoint it raises ValueError and ends.
SummaryStart ==
    /\ summary_task.pc = "idle"
    /\ settings_lock = "None"
    /\ IF app_settings.ollama_api_url \in {None, <<>>}
       THEN /\ SummaryFinally("None", URL_NOT_CONFIGURED, clock)
            /\ summary_task' = NoSummaryTask
       ELSE /\ summary_task' = [pc |-> "fetch", summary_start_time |-> clock,
                                ollama_url |-> app_settings.ollama_api_url,
                                requests |-> <<>>]
            /\ UNCHANGED <<ai_health_summary, summary_history>>
    /\ UNCHANGED <<scan_status, container_statuses, app_settings, analyzer_globals,
                   abnormalities, stop_scan_event, clock, cycles, th, manage, settings_lock,
                   settings_post, trigger_response, snippet_call>>

\* A filter with no window: the unresolved rows of any age.
UnresolvedEver(table, cutoff, db_ok) ==
    {i \in 1..Len(table) : db_ok /\ table[i].status = "unresolved"}

\* The rows db.get_recent_abnormalities returns that are unresolved: those
\* detected since the cutoff, none when the query fails.
UnresolvedSince(table, cutoff, db_ok) ==
    {i \in 1..Len(table) :
        /\ db_ok
        /\ table[i].last_detected_timestamp >= cutoff
        /\ table[i].status = "unresolved"}

\* unresolved_issues sorted by last detection, latest first, and cut to
\* MAX_SUMMARY_ISSUES: the rows no left-out row is more recent than.
limited_issues(table, unresolved_issues) ==
    CHOOSE kept \in SUBSET unresolved_issues :
        /\ Cardinality(kept) = Min({MAX_SUMMARY_ISSUES, Cardinality(unresolved_issues)})
        /\ \A i \in kept, j \in unresolved_issues \ kept :
               table[i].last_detected_timestamp >= table[j].last_detected_timestamp

\* The end of a run: the finally, and the task is over; requests are the
\* summary requests the run made of the classifier.
SummaryEnd(final_summary, final_error, requests) ==
    /\ SummaryFinally(final_summary, final_error, summary_task.summary_start_time)
    /\ summary_task' = [NoSummaryTask EXCEPT !.requests = requests]

\* A task that, when it fails, also writes its failure into the status of
\* the scan.
SummaryFetchMarkingScan ==
    /\ summary_task.pc = "fetch"
    /\ \E out \in UpsertOutcomes, cutoff \in 0..clock :
        LET unresolved_issues == UnresolvedSince(abnormalities, cutoff, out = "ok")
            failed == out = "raise" \/ unresolved_issues # {}
        IN  /\ IF failed THEN SummaryEnd("None", UNEXPECTED, <<>>)
                         ELSE SummaryEnd(STABLE, "None", <<>>)
            /\ scan_status' =
                   IF failed
                   THEN [scan_status EXCEPT !.last_run_status = RunStatus(UNEXPECTED, 0, 0, 0, 0)]
                   ELSE scan_status
    /\ UNCHANGED <<container_statuses, app_settings, analyzer_globals, abnormalities,
                   stop_scan_event, clock, cycles, th, manage, settings_lock, settings_post,
                   trigger_response, snippet_call>>

\* db.get_recent_abnormalities returns (out "ok"), fails in its query and
\* returns nothing (out "error"), or raises.  With no unresolved issue the
\* summary is the standard one and the classifier is not called; with some,
\* the call of analyzer.summarize_recent_abnormalities raises TypeError.
\* Were the call accepted, its answer would become the summary or the error.
SummaryFetchWith(out, cutoff) ==
    /\ summary_task.pc = "fetch"
    /\ LET unresolved_issues == UnresolvedSince(abnormalities, cutoff, out = "ok")
           limited == limited_issues(abnormalities, unresolved_issues)
       IN  IF out = "raise"
           THEN SummaryEnd("None", UNEXPECTED, <<>>)
           ELSE IF limited = {}
           THEN SummaryEnd(STABLE, "None", <<>>)
           ELSE IF ~SummarizerTakesKeywords
           THEN SummaryEnd("None", UNEXPECTED, <<>>)
           ELSE \E response \in SummaryResponses :
                    IF response.error
                    THEN SummaryEnd("None", response.text, <<limited>>)
                    ELSE IF response.text # ""
                    THEN SummaryEnd(response.text, "None", <<limited>>)
                    ELSE SummaryEnd("None", NO_SUMMARY_TEXT, <<limited>>)
    /\ UNCHANGED <<scan_status, container_statuses, app_settings, analyzer_globals,
                   abnormalities, stop_scan_event, clock, cycles, th, manage, settings_lock,
                   settings_post, trigger_response, snippet_call>>

SummaryFetch == \E out \in UpsertOutcomes, cutoff \in 0..clock : SummaryFetchWith(out, cutoff)

SummaryNext ==
    \/ \E t \in Threads : EnterSkip(t)
    \/ \E t \in JobThreads : EnterStart(t)
    \/ \E t \in JobThreads : TriageProceed(t)
    \/ SummaryStart
    \/ SummaryFetch

SummarySpec == Init /\ [][SummaryNext]_vars

\* ------------------------------------------------------------- extract_log_snippet alone
\* The length of a text longer than the cap of a snippet.
LongLen == 501

\* ch * n
Repeat(ch, n) == [i \in 1..n |-> ch]

\* Texts a classifier may give: with the marker and evidence after it, with
\* evidence in parentheses, with long evidence, with nothing after the
\* marker, with the marker twice; without the marker, plain, in parentheses,
\* and empty.
SnippetAnalyses ==
    { DiskFull,
      <<"C","r","a","s","h","."," ","R","e","l","e","v","a","n","t"," ","L","o","g","(","s",")",":"," ","(","s","e","e"," ","t","h","e"," ","l","a","s","t"," ","l","i","n","e","s",")">>,
      SNIPPET_PREFIX \o <<" ">> \o Repeat("x", LongLen) \o <<" ">>,
      <<"C","r","a","s","h","."," ","R","e","l","e","v","a","n","t"," ","L","o","g","(","s",")",":"," "," ">>,
      <<"O","O","M","."," ","R","e","l","e","v","a","n","t"," ","L","o","g","(","s",")",":"," ","k","i","l","l","e","d"," ","R","e","l","e","v","a","n","t"," ","L","o","g","(","s",")",":"," ","p","i","d"," ","7">>,
      <<"D","i","s","k"," ","n","e","a","r","l","y"," ","f","u","l","l">>,
      <<"(","u","n","c","l","e","a","r",")">>,
      <<>> }

\* Logs: no keyword line; keyword lines among others; more than three
\* lines with blank ones and no keyword; blank; a long keyword line; long
\* lines with no keyword; a keyword in capitals in the first of two lines; a
\* single line in parentheses.
SnippetLogs ==
    { <<"I","N","F","O"," ","s","t","a","r","t","e","d","\n","W","A","R","N"," ","d","i","s","k"," ","a","t"," ","9","5","%","\n">>,
      <<"E","R","R","O","R"," ","a","\n","I","N","F","O"," ","b","\n"," ","w","a","r","n","i","n","g"," ","c"," ","\n","I","N","F","O"," ","d","\n">>,
      <<"a","\n","\n"," ","b"," ","\n","c","\n"," "," "," ","\n","d","\n">>,
      <<" ","\n">>,
      <<"e","r","r","o","r"," ">> \o Repeat("x", LongLen) \o <<"\n">>,
      Repeat("a", LongLen) \o <<"\n">> \o Repeat("b", LongLen),
      <<"F","a","t","a","l",":"," ","X","\n","o","k","\n">>,
      <<"(","n","o"," ","o","u","t","p","u","t",")">> }

SnippetInit ==
    /\ Constructed
    /\ snippet_call \in {[analysis_result |-> a, full_logs |-> l, snippet |-> None] :
                            a \in SnippetAnalyses, l \in SnippetLogs}

\* The call returns.
SnippetReturn ==
    /\ snippet_call.snippet = None
    /\ snippet_call' = [snippet_call EXCEPT
                           !.snippet = extract_log_snippet(snippet_call.analysis_result,
                                                          snippet_call.full_logs)]
    /\ UNCHANGED <<scan_status, container_statuses, app_settings, analyzer_globals, abnormalities,
                   stop_scan_event, clock, cycles, th, manage,
                   settings_lock, settings_post, trigger_response, ai_health_summary, summary_task, summary_history>>

SnippetNext == SnippetReturn

SnippetSpec == SnippetInit /\ [][SnippetNext]_vars

\* ------------------------------------------------------------- properties
\* The invocations that are executing a scan cycle.
Executing == {t \in Threads : InCycle(t)}

\* The entries a cycle holds for publication.
Held(t) == {th[t].scan_results_temp[c].entry :
               c \in {d \in DOMAIN th[t].scan_results_temp : ~th[t].scan_results_temp[d].remove}}

\* C1: at any time at most one invocation of scan_docker_logs is executing a
\* scan cycle (has passed the entry guard and not yet returned).
C1_AtMostOneCycle == Cardinality(Executing) <= 1

\* C2: every invocation that passed the entry guard eventually returns, the
\* step by which it returns leaves running false, and running is never true
\* while no cycle is executing.
C2_RunningReleased ==
    /\ \A t \in Threads : InCycle(t) ~> ~InCycle(t)
    /\ [][\A t \in Threads : (InCycle(t) /\ ~InCycle(t)') => ~scan_status'.running]_vars
    /\ [](scan_status.running => Executing # {})

\* A cycle has returned by its finally and running is false with no cycle
\* executing.
C2_Witness ==
    /\ Executing = {}
    /\ ~scan_status.running
    /\ scan_status.last_run_status.text = "Scan finished"

\* C3: when a stop was requested in a cycle before its first loop iteration
\* began, no result of that cycle is published: at the end of the cycle every
\* entry of the published map is as it was when the cycle started (the
\* 'pending' entries of newly discovered containers apart, which are left to C6).
C3_CancelledCycleLeavesMap ==
    \A t \in Threads :
        (th[t].pc = "final" /\ th[t].stop_seen) =>
            /\ DOMAIN th[t].start_map \subseteq DOMAIN container_statuses
            /\ \A c \in DOMAIN container_statuses :
                  IF c \in DOMAIN th[t].start_map
                  THEN container_statuses[c] = th[t].start_map[c]
                  ELSE container_statuses[c].status = "pending"

\* C4: once a stop was requested in a cycle before its first loop iteration
\* began, the cycle begins no loop iteration, and when it returns by the end
\* of its main part its final status is Cancelled.
C4_StopsAtNextSafePoint ==
    [][\A t \in Threads :
          (InCycle(t) /\ th[t].stop_seen) =>
              IF InCycle(t)'
              THEN th'[t].containers_processed = th[t].containers_processed
              ELSE th[t].pc = "final" => scan_status'.last_run_status.text = "Cancelled"]_vars

C6_SinglePublish ==
    [][container_statuses' # container_statuses =>
          \E t \in Threads : th[t].pc = "loop" /\ th'[t].pc = "final"]_vars

\* C6 as the code has it: a step changes the published map only if it is the
\* final publish step of a cycle, or the step of the preparation that enters
\* the newly discovered containers, which removes nothing and leaves every
\* entry it touches 'pending' with no result.
C6_PublishOrPending ==
    [][container_statuses' # container_statuses =>
          \E t \in Threads :
              \/ th[t].pc = "loop" /\ th'[t].pc = "final"
              \/ /\ th[t].pc = "add" /\ th'[t].pc = "loop"
                 /\ DOMAIN container_statuses \subseteq DOMAIN container_statuses'
                 /\ \A c \in DOMAIN container_statuses' :
                       \/ c \in DOMAIN container_statuses /\ container_statuses'[c] = container_statuses[c]
                       \/ container_statuses'[c] = Entry(ContainerName(c), "pending", NoTime, None, NoId)]_vars

\* A cycle holds the result of a container whose published entry is still
\* the 'pending' one it entered at preparation.
C6_Witness ==
    \E t \in Threads : \E c \in DOMAIN th[t].scan_results_temp :
        /\ c \in DOMAIN container_statuses
        /\ container_statuses[c].status = "pending"
        /\ th[t].scan_results_temp[c].entry.status \notin {"pending", NoStatus}

\* C7: a cycle that got past its preparation is not aborted by a container
\* whose logs cannot be fetched: when it reaches its end it has processed
\* every container of its scan list and holds a result for each, the one of a
\* failed fetch being error_fetching_logs.
C7_FetchFailureIsolated ==
    \A t \in Threads :
        th[t].pc = "final" =>
            /\ th[t].containers_processed = Len(th[t].containers_to_scan_ids)
            /\ \A i \in 1..Len(th[t].containers_to_scan_ids) :
                  th[t].containers_to_scan_ids[i] \in DOMAIN th[t].scan_results_temp
            /\ th[t].fetch_errors_occurred =
                  Cardinality({e \in Held(t) : e.status = "error_fetching_logs"})

\* The reports analyze_logs_with_ollama returns when the classifier call
\* failed.
ClassifierFailed(r) ==
    \/ r \in {ERR_MODEL_NOT_CONFIGURED, ERR_PROMPT_CONFIG, ERR_URL_NOT_SET, ERR_URL_FORMAT,
              ERR_EMPTY_RESPONSE, ERR_TIMED_OUT, ERR_INVALID_JSON}
    \/ StartsWith(r, ERR_MODEL_NOT_FOUND_A) /\ EndsWith(r, ERR_MODEL_NOT_FOUND_B)
    \/ StartsWith(r, ERR_ENDPOINT_NOT_FOUND)
    \/ StartsWith(r, ERR_COMMUNICATION)
    \/ StartsWith(r, ERR_UNEXPECTED)

\* C8: a failure the classifier call signals makes the container
\* analysis-error, and no abnormality record carries it.
C8_ClassifierFailureIsolated ==
    /\ \A i \in 1..Len(abnormalities) : ~ClassifierFailed(abnormalities[i].ollama_analysis)
    /\ \A t \in Threads : \A e \in Held(t) :
          ClassifierFailed(e.error_detail) => e.status = "error_analysis"

\* C9: a failure to get the client or to list the containers ends the cycle
\* as failed with running false, and leaves the published map and the store
\* as they were.
C9_InventoryFailure ==
    [][\A t \in Threads :
          (th[t].pc = "prep" /\ th'[t].pc = "idle") =>
              /\ ~scan_status'.running
              /\ scan_status'.last_run_status.text = "Error preparing scan"
              /\ container_statuses' = container_statuses
              /\ abnormalities' = abnormalities]_vars

\* A preparation has failed while the published map held entries.
C9_Witness ==
    /\ scan_status.last_run_status.text = "Error preparing scan"
    /\ ~scan_status.running
    /\ container_statuses # EmptyMap

\* C10: an output that begins with "ERROR: " makes the container
\* analysis-error, and no abnormality record carries it.
C10_ErrorOutputIsAnalysisError ==
    /\ \A i \in 1..Len(abnormalities) : ~StartsWith(abnormalities[i].ollama_analysis, ERROR_PREFIX)
    /\ \A t \in Threads : \A e \in Held(t) :
          StartsWith(e.error_detail, ERROR_PREFIX) => e.status = "error_analysis"

\* An output that begins with "ERROR: " and holds one of the phrases
\* scan_docker_logs looks for.
Recognised(r) == StartsWith(r, ERROR_PREFIX) /\ IsInternalError(r)

\* C10 as the code has it: an output that begins with "ERROR: " and holds one
\* of the failure phrases makes the container analysis-error, never reaches
\* the store and is carried by no abnormality record.
C10_RecognisedErrorIsAnalysisError ==
    /\ \A i \in 1..Len(abnormalities) : ~Recognised(abnormalities[i].ollama_analysis)
    /\ \A t \in Threads :
          /\ th[t].pc \in {"lookup", "upsert"} => ~Recognised(th[t].analysis_result)
          /\ \A e \in Held(t) : Recognised(e.error_detail) => e.status = "error_analysis"

\* A cycle holds an analysis-error for a recognised "ERROR: " output while
\* the store has a record of an unrecognised one.
C10_Witness ==
    /\ \E t \in Threads : \E e \in Held(t) : Recognised(e.error_detail) /\ e.status = "error_analysis"
    /\ \E i \in 1..Len(abnormalities) : StartsWith(abnormalities[i].ollama_analysis, ERROR_PREFIX)


\* The container of the loop iteration the invocation last completed, and the
\* result it holds for it.
LastProcessed(t) == th[t].containers_to_scan_ids[th[t].idx - 1]
HasResult(t) ==
    /\ th[t].pc \in {"loop", "final"}
    /\ th[t].idx - 1 \in 1..Len(th[t].containers_to_scan_ids)
    /\ LastProcessed(t) \in DOMAIN th[t].scan_results_temp
    /\ ~th[t].scan_results_temp[LastProcessed(t)].remove
LastResult(t) == th[t].scan_results_temp[LastProcessed(t)].entry

\* C11: when the classifier returns empty output for a container, the
\* container's result is never healthy and never unhealthy (it is
\* analysis-error) and nothing is written to the store for it: no record
\* carries the report of the empty output.
C11_EmptyOutputIsAnalysisError ==
    /\ \A t \in Threads : (th[t].classifier_output = <<>> /\ th[t].pc \in {"loop", "final"}) =>
          HasResult(t) /\ LastResult(t).status \notin {"healthy", "unhealthy"}
    /\ \A i \in 1..Len(abnormalities) : abnormalities[i].ollama_analysis # ERR_EMPTY_RESPONSE

\* The output is the token NORMAL, in any letter case, with or without a
\* trailing period.
IsNormalToken(output) == output # None /\ Upper(Strip(output)) \in {NORMAL, NORMAL_DOT}

\* C12: when the classifier output is the token NORMAL (any letter case,
\* optional trailing period), the iteration asks nothing of the store and
\* holds the container as healthy, with no error detail and no linked
\* abnormality.
C12_NormalIsHealthy ==
    \A t \in Threads : IsNormalToken(th[t].classifier_output) =>
        /\ th[t].pc \in {"loop", "final"}
        /\ HasResult(t)
        /\ LastResult(t).status = "healthy"
        /\ LastResult(t).db_id = NoId
        /\ LastResult(t).error_detail = None

\* A previously unhealthy, linked container for which the classifier said
\* "normal" is held healthy and unlinked.
C12_Witness ==
    \E t \in Threads :
        /\ th[t].classifier_output = <<"n","o","r","m","a","l">>
        /\ HasResult(t)
        /\ LastResult(t).status = "healthy" /\ LastResult(t).db_id = NoId
        /\ LastProcessed(t) \in DOMAIN th[t].start_map
        /\ th[t].start_map[LastProcessed(t)].db_id # NoId

\* The container has a record that the operator resolved or ignored.
HasHandledRecord(c) ==
    \E i \in 1..Len(abnormalities) :
        abnormalities[i].container_id = c /\ abnormalities[i].status \in {"resolved", "ignored"}

\* C13: every non-empty classifier output that is neither the NORMAL token
\* nor ERROR:-prefixed is handled as an abnormality: the iteration goes to the
\* store with its snippet, and its result is unhealthy, a persistence error,
\* or healthy only on account of a resolved or ignored record; an output that
\* merely starts with the word "normal" is not held healthy.
C13_ClosedTaxonomy ==
    \A t \in Threads :
        LET output == th[t].classifier_output
        IN  (output # None /\ Strip(output) # <<>> /\ ~IsNormalToken(output)
                /\ ~StartsWith(Strip(output), ERROR_PREFIX)) =>
            \/ th[t].pc \in {"lookup", "upsert"}
            \/ /\ HasResult(t)
               /\ \/ LastResult(t).status \in {"unhealthy", "error_db_log", "error_db_lookup"}
                  \/ LastResult(t).status = "healthy" /\ HasHandledRecord(LastProcessed(t))


\* The container of the loop iteration the invocation is in, and the result
\* the step being taken stores for it.
Current(t) == th[t].containers_to_scan_ids[th[t].idx]
StoredResult(t) == th'[t].scan_results_temp[Current(t)].entry

\* C14: for a container that has no record for the extracted snippet, the
\* upsert of an abnormality output, when the store takes it, creates exactly
\* one new record, unresolved, with that snippet (for the output "Disk nearly
\* full. Relevant Log(s): WARN disk at 95%" the snippet "WARN disk at 95%")
\* and first and last seen now, and the container is held unhealthy linked to
\* the new record's id; when the store fails nothing is written.
C14_NewRecordForNewSnippet ==
    [][\A t \in Threads :
        (/\ th[t].pc = "upsert" /\ th'[t].pc = "loop"
         /\ RowsOfKey(abnormalities, Current(t), th[t].log_snippet) = {}) =>
            LET n == Len(abnormalities) + 1
            IN  IF StoredResult(t).status = "error_db_log" THEN abnormalities' = abnormalities
                ELSE /\ Len(abnormalities') = n
                     /\ SubSeq(abnormalities', 1, n - 1) = abnormalities
                     /\ abnormalities'[n].container_id = Current(t)
                     /\ abnormalities'[n].log_snippet = th[t].log_snippet
                     /\ th[t].classifier_output = DiskNearlyFull =>
                            abnormalities'[n].log_snippet = WarnDiskAt95
                     /\ abnormalities'[n].ollama_analysis = th[t].classifier_output
                     /\ abnormalities'[n].status = "unresolved"
                     /\ abnormalities'[n].first_detected_timestamp = clock
                     /\ abnormalities'[n].last_detected_timestamp = clock
                     /\ StoredResult(t).status = "unhealthy"
                     /\ StoredResult(t).db_id = n]_vars

\* A container with no link at the start of the cycle is held unhealthy,
\* linked to the new unresolved record of "WARN disk at 95%".
C14_Witness ==
    \E t \in Threads :
        /\ HasResult(t)
        /\ th[t].classifier_output = DiskNearlyFull
        /\ LastResult(t).status = "unhealthy"
        /\ LastResult(t).db_id = Len(abnormalities)
        /\ Len(abnormalities) > 0
        /\ abnormalities[Len(abnormalities)].log_snippet = WarnDiskAt95
        /\ abnormalities[Len(abnormalities)].status = "unresolved"
        /\ abnormalities[Len(abnormalities)].first_detected_timestamp = clock

\* C15: detecting a (container_id, snippet) whose record is unresolved leaves
\* exactly one record for the key, with the same id; when the store takes the
\* upsert the record's last_seen is now and its analysis text is the new
\* output, nothing else in the store changes, and the container is held
\* unhealthy linked to that id.
C15_UpsertIdempotent ==
    [][\A t \in Threads :
        (/\ th[t].pc = "upsert" /\ th'[t].pc = "loop"
         /\ \E i \in RowsOfKey(abnormalities, Current(t), th[t].log_snippet) :
                abnormalities[i].status = "unresolved") =>
            LET rows == RowsOfKey(abnormalities, Current(t), th[t].log_snippet)
                i == CHOOSE r \in rows : abnormalities[r].status = "unresolved"
            IN  /\ Cardinality(rows) = 1
                /\ RowsOfKey(abnormalities', Current(t), th[t].log_snippet) = rows
                /\ Len(abnormalities') = Len(abnormalities)
                /\ abnormalities[i].last_detected_timestamp <= clock
                /\ IF StoredResult(t).status = "error_db_log" THEN abnormalities' = abnormalities
                   ELSE /\ abnormalities' =
                               [abnormalities EXCEPT ![i].last_detected_timestamp = clock,
                                                     ![i].ollama_analysis = th[t].classifier_output]
                        /\ StoredResult(t).status = "unhealthy"
                        /\ StoredResult(t).db_id = i]_vars

\* A record detected in an earlier cycle has been refreshed by this one: it
\* is the only record of its key, last seen now, with this cycle's output.
C15_Witness ==
    \E t \in Threads : \E i \in 1..Len(abnormalities) :
        /\ HasResult(t)
        /\ LastResult(t).status = "unhealthy" /\ LastResult(t).db_id = i
        /\ abnormalities[i].container_id = LastProcessed(t)
        /\ abnormalities[i].first_detected_timestamp < abnormalities[i].last_detected_timestamp
        /\ abnormalities[i].last_detected_timestamp = clock
        /\ abnormalities[i].ollama_analysis = th[t].classifier_output
        /\ Cardinality(RowsOfKey(abnormalities, LastProcessed(t), abnormalities[i].log_snippet)) = 1

\* The latest record of the key the iteration is asking about is resolved or
\* ignored.
Handled(t) ==
    LET rows == RowsOfKey(abnormalities, Current(t), th[t].log_snippet)
    IN  rows # {} /\ abnormalities[LatestOf(abnormalities, rows)].status \in {"resolved", "ignored"}

\* C16: if the latest record of (container_id, snippet) is resolved or
\* ignored, a cycle that detects the snippet writes nothing to the store, and
\* on the store's answer to its lookup holds the container healthy with no
\* error detail and no linked abnormality.
C16_HandledSnippetIsHealthy ==
    [][\A t \in Threads :
        /\ (th[t].pc = "lookup" /\ Handled(t) /\ LookupWith(t, "ok")) =>
              /\ th'[t].pc = "loop"
              /\ StoredResult(t).status = "healthy"
              /\ StoredResult(t).db_id = NoId
              /\ StoredResult(t).error_detail = None
        /\ (th[t].pc \in {"lookup", "upsert"} /\ th'[t].pc # th[t].pc /\ Handled(t)) =>
              abnormalities' = abnormalities]_vars

\* The classifier described an abnormality, the container has a resolved or
\* ignored record, and the container that was linked is held healthy.
C16_Witness ==
    \E t \in Threads :
        /\ HasResult(t)
        /\ th[t].classifier_output \in {DiskNearlyFull, DiskFull}
        /\ HasHandledRecord(LastProcessed(t))
        /\ LastResult(t).status = "healthy" /\ LastResult(t).db_id = NoId
        /\ LastProcessed(t) \in DOMAIN th[t].start_map
        /\ th[t].start_map[LastProcessed(t)].status = "awaiting_scan"


\* C17: in every reachable state the store holds at most one abnormality
\* record per (container_id, log_snippet), whatever the interleaving of the
\* scan's upserts and the operator's status changes.
C17_OneRecordPerKey ==
    \A i, j \in 1..Len(abnormalities) :
        (/\ abnormalities[i].container_id = abnormalities[j].container_id
         /\ abnormalities[i].log_snippet = abnormalities[j].log_snippet) => i = j

\* The scan detected again a snippet whose record the operator had resolved
\* or ignored, went on to the upsert, and ended in error_db_log with the key
\* still holding its one record.
C17_Witness ==
    \E t \in Threads :
        /\ HasResult(t)
        /\ th[t].classifier_output \in {DiskNearlyFull, DiskFull}
        /\ LastResult(t).status = "error_db_log"
        /\ Cardinality(RowsOfKey(abnormalities, LastProcessed(t), WarnDiskAt95)) = 1
        /\ \E i \in RowsOfKey(abnormalities, LastProcessed(t), WarnDiskAt95) :
              abnormalities[i].status \in {"resolved", "ignored"}

\* C18: for every abnormality record, no operation (re-detection upsert,
\* operator status change) changes first_seen or decreases last_seen, no
\* record disappears, and first_seen <= last_seen always holds.
C18_SeenTimes ==
    /\ [][\A i \in 1..Len(abnormalities) :
            /\ i <= Len(abnormalities')
            /\ abnormalities'[i].first_detected_timestamp = abnormalities[i].first_detected_timestamp
            /\ abnormalities'[i].last_detected_timestamp >= abnormalities[i].last_detected_timestamp]_vars
    /\ [](\A i \in 1..Len(abnormalities) :
            abnormalities[i].first_detected_timestamp <= abnormalities[i].last_detected_timestamp)

\* A record that was detected again after its creation and whose status the
\* operator then changed.
C18_Witness ==
    \E i \in 1..Len(abnormalities) :
        /\ abnormalities[i].first_detected_timestamp < abnormalities[i].last_detected_timestamp
        /\ abnormalities[i].status \in {"resolved", "ignored"}

\* C19: the bulk update of a cycle that completes normally leaves in the
\* published status map no entry whose container id was absent from the
\* inventory listed at the start of that cycle, and none appears before the
\* cycle returns.
C19_StoppedContainersRemoved ==
    /\ [][\A t \in Threads :
            (th[t].pc = "loop" /\ th'[t].pc = "final") =>
                DOMAIN container_statuses' \subseteq running_container_ids_now(t)]_vars
    /\ [](\A t \in Threads :
            (th[t].pc = "final" /\ scan_status.running) =>
                DOMAIN container_statuses \subseteq running_container_ids_now(t))

\* A container published when the cycle started and absent from the cycle's
\* inventory is gone from the map the cycle published.
C19_Witness ==
    \E t \in Threads :
        /\ th[t].pc = "final" /\ scan_status.running
        /\ \E c \in DOMAIN th[t].start_map :
              c \notin running_container_ids_now(t) /\ c \notin DOMAIN container_statuses

\* C20 as stated: in every published status map a container has a linked
\* abnormality id only if its status is unhealthy or awaiting a rescan.
C20_LinkOnlyWhenUnhealthy ==
    \A c \in DOMAIN container_statuses :
        container_statuses[c].db_id # NoId =>
            container_statuses[c].status \in {"unhealthy", "awaiting_scan"}

\* C20: in every published status map a container has a linked abnormality
\* id only if its status is unhealthy, awaiting a rescan, or an analysis or
\* persistence error that kept the link the container had: a healthy or
\* pending container has none.  The same holds of the results a cycle holds.
C20_LinkNeverWhenHealthy ==
    /\ \A c \in DOMAIN container_statuses :
          container_statuses[c].db_id # NoId =>
              container_statuses[c].status \in {"unhealthy", "awaiting_scan", "error_analysis", "error_db_log"}
    /\ \A t \in Threads : \A e \in Held(t) :
          e.db_id # NoId => e.status \in {"unhealthy", "awaiting_scan", "error_analysis", "error_db_log"}

\* A container whose record the operator resolved or ignored and whose next
\* scan ended in an error is published in the error state, still linked.
C20_Witness ==
    \E c \in DOMAIN container_statuses :
        /\ container_statuses[c].status \in {"error_analysis", "error_db_log"}
        /\ container_statuses[c].db_id \in 1..Len(abnormalities)
        /\ abnormalities[container_statuses[c].db_id].status \in {"resolved", "ignored"}

\* C21: whenever a cycle publishes a container as healthy, the published
\* entry of that container has no linked abnormality id, whatever link the
\* container had when the cycle started.
C21_HealthyPublishedUnlinked ==
    [][\A t \in Threads :
          (th[t].pc = "loop" /\ th'[t].pc = "final") =>
              \A c \in DOMAIN container_statuses' :
                  (/\ c \in DOMAIN th[t].scan_results_temp
                   /\ ~th[t].scan_results_temp[c].remove
                   /\ th[t].scan_results_temp[c].entry.status = "healthy")
                  => /\ container_statuses'[c].status = "healthy"
                     /\ container_statuses'[c].db_id = NoId]_vars

\* A container that was linked to a record when the cycle started has been
\* found healthy and is published healthy with no link.
C21_Witness ==
    \E t \in Threads :
        /\ th[t].pc = "final" /\ scan_status.running
        /\ \E c \in DOMAIN container_statuses \cap DOMAIN th[t].start_map :
              /\ th[t].start_map[c].db_id # NoId
              /\ c \in DOMAIN th[t].scan_results_temp
              /\ th[t].scan_results_temp[c].entry.status = "healthy"
              /\ container_statuses[c].status = "healthy"
              /\ container_statuses[c].db_id = NoId

\* C22: when the upsert of a detected abnormality fails (the store returns no
\* id, or the call raises), the container's result is the persistence-error
\* status error_db_log, which is not the analysis-error status; the failure
\* is counted as a database error and not as an analysis error, the loop
\* goes on to the next container, and the bulk update publishes the result
\* with that status.
C22_UpsertFailureIsPersistenceError ==
    /\ [][\A t \in Threads :
            (th[t].pc = "upsert" /\ th'[t] # th[t]) =>
                /\ (UpsertWith(t, "error") \/ UpsertWith(t, "raise")
                        \/ StoredResult(t).status # "unhealthy")
                    => /\ StoredResult(t).status = "error_db_log"
                       /\ StoredResult(t).status # "error_analysis"
                       /\ th'[t].db_errors_occurred = th[t].db_errors_occurred + 1
                       /\ th'[t].analysis_errors_occurred = th[t].analysis_errors_occurred
                /\ th'[t].pc = "loop"
                /\ th'[t].idx = th[t].idx + 1]_vars
    /\ [][\A t \in Threads :
            (th[t].pc = "loop" /\ th'[t].pc = "final") =>
                \A c \in DOMAIN container_statuses' \cap DOMAIN th[t].scan_results_temp :
                    th[t].scan_results_temp[c].entry.status = "error_db_log"
                        => container_statuses'[c].status = "error_db_log"]_vars

\* A cycle over two containers has published the first with the
\* persistence-error status and has processed the second after it.
C22_Witness ==
    \E t \in Threads :
        /\ th[t].pc = "final" /\ scan_status.running
        /\ Len(th[t].containers_to_scan_ids) = 2
        /\ LET first == th[t].containers_to_scan_ids[1]
               second == th[t].containers_to_scan_ids[2]
           IN  /\ first \in DOMAIN container_statuses
               /\ container_statuses[first].status = "error_db_log"
               /\ th[t].db_errors_occurred >= 1
               /\ second \in DOMAIN th[t].scan_results_temp
               /\ th[t].containers_processed = 2

\* The cycle of t has taken its settings and found no classifier endpoint.
EndpointUnset(t) ==
    /\ th[t].pc \notin {"idle", "prep"}
    /\ th[t].settings_for_scan.ollama_api_url \in {None, <<>>}

\* C23: a cycle that found the classifier endpoint unset receives nothing
\* from the classifier and counts no analysis failure, never asks the store
\* and changes no abnormality record, holds only healthy results (or
\* error_fetching_logs for a container whose logs it could not fetch), and
\* its bulk update leaves only running containers in the published map,
\* those it scanned being published healthy.
C23_NoEndpointAllHealthy ==
    /\ [](\A t \in Threads : EndpointUnset(t) =>
             /\ th[t].classifier_output = None
             /\ th[t].analysis_errors_occurred = 0
             /\ th[t].pc \notin {"lookup", "upsert"}
             /\ \A e \in Held(t) : e.status \in {"healthy", "error_fetching_logs"})
    /\ [][\A t \in Threads :
            (EndpointUnset(t) /\ th'[t] # th[t]) => abnormalities' = abnormalities]_vars
    /\ [][\A t \in Threads :
            (EndpointUnset(t) /\ th[t].pc = "loop" /\ th'[t].pc = "final") =>
                /\ DOMAIN container_statuses' \subseteq running_container_ids_now(t)
                /\ \A c \in DOMAIN container_statuses' \cap DOMAIN th[t].scan_results_temp :
                      container_statuses'[c].status \in {"healthy", "error_fetching_logs"}]_vars

\* A cycle with no endpoint has published: a container that was in the map
\* when it started and is no longer running is gone, and a container whose
\* logs it fetched is published healthy.
C23_Witness ==
    \E t \in Threads :
        /\ EndpointUnset(t)
        /\ th[t].pc = "final" /\ scan_status.running
        /\ \E c \in DOMAIN th[t].start_map :
              c \notin running_container_ids_now(t) /\ c \notin DOMAIN container_statuses
        /\ \E c \in DOMAIN container_statuses \cap DOMAIN th[t].scan_results_temp :
              /\ container_statuses[c].status = "healthy"
              /\ container_statuses[c].last_checked = clock

\* C29: a container's last_checked is set only by a cycle that attempted an
\* analysis of its logs: the bulk update of a cycle that found the
\* classifier endpoint unset, and so analysed nothing, leaves the
\* last_checked of every container it keeps as it was.
C29_LastCheckedOnlyAfterAnalysis ==
    [][\A t \in Threads :
          (EndpointUnset(t) /\ th[t].pc = "loop" /\ th'[t].pc = "final") =>
              \A c \in DOMAIN container_statuses' \cap DOMAIN container_statuses :
                  container_statuses'[c].last_checked = container_statuses[c].last_checked]_vars

\* The call of extract_log_snippet has returned.
Returned == snippet_call.snippet # None

\* C27: for every classifier output that contains the marker
\* "Relevant Log(s):" and every log text, extract_log_snippet returns the
\* trimmed text after the first marker, cut at 500 characters with "..."
\* appended exactly when it was longer, whatever that text is.
C27_MarkerTextAlwaysWins ==
    (Returned /\ Contains(snippet_call.analysis_result, SNIPPET_PREFIX)) =>
        LET text == Strip(AfterFirst(snippet_call.analysis_result, SNIPPET_PREFIX))
        IN  snippet_call.snippet =
                IF Len(text) > SnippetCap THEN Take(text, SnippetCap) \o ELLIPSIS ELSE text

\* The non-blank lines of the logs, trimmed, in their order.
NonBlankLines(full_logs) ==
    LET lines == SplitLines(full_logs)
    IN  SelectAt([i \in 1..Len(lines) |-> Strip(lines[i])],
                 {i \in 1..Len(lines) : Strip(lines[i]) # <<>>}, 1)

HasKeyword(line) == \E kw \in keywords : Contains(Lower(line), kw)

C24_NoBlockingCallUnderLock ==
    settings_post.pc = "set_setting" => settings_lock # "settings"

\* C25: a manual trigger (UI or API route) handled while no scan is marked
\* running starts a thread that runs scan_docker_logs from its entry guard;
\* one handled while a scan is marked running starts nothing.
C25_ManualTriggerStartsCycle ==
    [][trigger_response' # trigger_response =>
          IF scan_status.running
          THEN th' = th
          ELSE /\ trigger_response'.answer = "triggered"
               /\ \E t \in Threads : th[t].pc = "idle" /\ th'[t].pc = "spawned"]_vars

\* C26: the settings of a cycle are those copied at its start and stay as
\* copied until it returns, and a classifier request of the cycle goes to
\* the endpoint of that copy.
C26_CycleUsesItsSnapshot ==
    /\ [][\A t \in Threads :
            (th[t].pc \notin {"idle", "spawned", "prep"} /\ InCycle(t)') =>
                th'[t].settings_for_scan = th[t].settings_for_scan]_vars
    /\ [][\A t \in Threads :
            (/\ th[t].pc = "loop"
             /\ th'[t].containers_processed = th[t].containers_processed + 1
             /\ th'[t].classifier_output # None)
            => analyzer_globals.OLLAMA_API_URL = th[t].settings_for_scan.ollama_api_url]_vars

\* C30: a step of update_ai_health_summary, whatever its outcome (no
\* endpoint, a failed or refused read of the store, a failed call of the
\* summarizer, the standard summary), leaves scan_status, the published
\* status map and the abnormality records as they are.
C30_SummaryLeavesScanState ==
    [][(summary_task' # summary_task \/ ai_health_summary' # ai_health_summary) =>
          UNCHANGED <<scan_status, container_statuses, abnormalities>>]_vars

\* The summary task has failed on the unresolved records of a scan cycle
\* that is still running.
C30_Witness ==
    /\ ai_health_summary.error = UNEXPECTED
    /\ ai_health_summary.last_updated = clock
    /\ scan_status.running
    /\ \E i \in 1..Len(abnormalities) :
          /\ abnormalities[i].status = "unresolved"
          /\ abnormalities[i].last_detected_timestamp = clock


\* A run of update_ai_health_summary ends in this step: after the fetch, or
\* at once when no endpoint is configured.
SummaryRunEnds ==
    \/ summary_task.pc = "fetch" /\ summary_task'.pc = "idle"
    \/ SummaryStart /\ summary_task'.pc = "idle"

\* C31: every run of the health-summary task appends exactly one record to
\* the summary history, holding the run's timestamp and its summary or its
\* error, and the records already there are never changed or removed.
C31_EveryRunAppendsOneRecord ==
    [][/\ Len(summary_history') >= Len(summary_history)
       /\ SubSeq(summary_history', 1, Len(summary_history)) = summary_history
       /\ SummaryRunEnds =>
              /\ Len(summary_history') = Len(summary_history) + 1
              /\ summary_history'[Len(summary_history')].timestamp =
                     ai_health_summary'.last_updated]_vars


\* The rows of the store that are unresolved and were last detected in the
\* window that starts at the cutoff.
UnresolvedInWindow(cutoff) ==
    {i \in 1..Len(abnormalities) :
        /\ abnormalities[i].status = "unresolved"
        /\ abnormalities[i].last_detected_timestamp >= cutoff}

\* C32: a run that reads at least one unresolved abnormality in its window
\* makes exactly one summary request of the classifier, about unresolved
\* abnormalities of the window only, at most MAX_SUMMARY_ISSUES of them and
\* the most recently detected ones; the run does not end in an error of its
\* own.
C32_UnresolvedIssuesAreSubmittedOnce ==
    [][\A cutoff \in 0..clock :
          (SummaryFetchWith("ok", cutoff) /\ UnresolvedInWindow(cutoff) # {}) =>
              /\ Len(summary_task'.requests) = 1
              /\ LET submitted == summary_task'.requests[1]
                 IN  /\ submitted # {}
                     /\ submitted \subseteq UnresolvedInWindow(cutoff)
                     /\ Cardinality(submitted) <= MAX_SUMMARY_ISSUES
                     /\ \A k \in submitted, j \in UnresolvedInWindow(cutoff) \ submitted :
                            abnormalities[k].last_detected_timestamp >=
                                abnormalities[j].last_detected_timestamp
              /\ ai_health_summary'.error # UNEXPECTED]_vars

\* C33 as stated: a run with the endpoint configured and no unresolved
\* abnormality in its window publishes the stable summary with no error and
\* makes no classifier call, whatever the read of the store does.
C33_NothingUnresolvedIsStable ==
    [][\A out \in UpsertOutcomes, cutoff \in 0..clock :
          (SummaryFetchWith(out, cutoff) /\ UnresolvedInWindow(cutoff) = {}) =>
              /\ ai_health_summary'.summary = STABLE
              /\ ai_health_summary'.error = "None"
              /\ summary_task'.requests = <<>>]_vars

\* C33, amended: the same when db.get_recent_abnormalities returns (its rows,
\* or nothing when its query failed); when it raises, the run publishes its
\* unexpected-error outcome, and in neither case is the classifier called.
C33_NothingUnresolvedReadIsStable ==
    [][\A out \in UpsertOutcomes, cutoff \in 0..clock :
          (SummaryFetchWith(out, cutoff) /\ UnresolvedInWindow(cutoff) = {}) =>
              /\ summary_task'.requests = <<>>
              /\ ai_health_summary'.last_updated = summary_task.summary_start_time
              /\ IF out = "raise"
                 THEN /\ ai_health_summary'.summary = SUMMARY_FAILED
                      /\ ai_health_summary'.error = UNEXPECTED
                 ELSE /\ ai_health_summary'.summary = STABLE
                      /\ ai_health_summary'.error = "None"]_vars

\* A run has just published the stable summary while the store holds
\* records, all of them last detected before the run started.
C33_Witness ==
    /\ summary_task.pc = "idle"
    /\ app_settings.ollama_api_url = OllamaUrl
    /\ ai_health_summary.summary = STABLE
    /\ ai_health_summary.error = "None"
    /\ ai_health_summary.last_updated = clock
    /\ abnormalities # <<>>
    /\ \A i \in 1..Len(abnormalities) : abnormalities[i].last_detected_timestamp < clock


\* C34: whenever no operator request is half handled and the published map
\* shows a container as unhealthy with a linked abnormality id, the linked
\* record exists in the store and is unresolved, whatever the interleaving
\* of the scan with the operator's status changes.
C34_UnhealthyLinkIsUnresolved ==
    manage.pc = "idle" =>
        \A c \in DOMAIN container_statuses :
            (container_statuses[c].status = "unhealthy" /\ container_statuses[c].db_id # NoId) =>
                /\ container_statuses[c].db_id \in 1..Len(abnormalities)
                /\ abnormalities[container_statuses[c].db_id].status = "unresolved"


C36_RunningWhileExecuting ==
    \A t \in Threads : InCycle(t) => scan_status.running

\* C37: when an invocation that aborted in its container loop, and reported
\* so in last_run_status, returns, last_run_status still reports the failure.
C37_FailureStaysReported ==
    [][\A t \in Threads :
          (/\ th[t].pc = "final"
           /\ scan_status.last_run_status.text = "Scan failed: Unexpected error"
           /\ ~InCycle(t)') =>
              scan_status'.last_run_status.text = "Scan failed: Unexpected error"]_vars


\* The records of container c, and the most recent of them.
RecordsOf(c) == {i \in 1..Len(abnormalities) : abnormalities[i].container_id = c}
MostRecentOf(c) == LatestOf(abnormalities, RecordsOf(c))

\* C38: populate_initial_statuses, when its lookups succeed, gives every
\* running container that is not ignored an entry: unhealthy linked to its
\* most recent record if that record is unresolved, awaiting_scan with no
\* link if it is resolved or ignored, pending with no link if the container
\* has no record.
C38_InitialHealthFromLatestRecord ==
    [][\A l \in TriageLists :
          PopulateWith(l, "ok") =>
              \A c \in DOMAIN container_statuses' :
                  LET entry == container_statuses'[c]
                  IN  IF RecordsOf(c) = {}
                      THEN entry.status = "pending" /\ entry.db_id = NoId
                      ELSE IF abnormalities[MostRecentOf(c)].status = "unresolved"
                      THEN entry.status = "unhealthy" /\ entry.db_id = MostRecentOf(c)
                      ELSE entry.status = "awaiting_scan" /\ entry.db_id = NoId]_vars


\* The entry of the container of the operator's request, before and after
\* the step.
Managed == container_statuses[manage.target_container_id]
ManagedAfter == container_statuses'[manage.target_container_id]

\* The cycle of t publishes in this step.
Publishes(t) == th[t].pc = "loop" /\ th'[t].pc = "final"

\* What C39 says of the end of a cycle: a container the cycle scanned is
\* neither awaiting_scan nor pending in the map the cycle publishes.
ScannedLeaveWaiting ==
    \A t \in Threads :
        Publishes(t) =>
            \A k \in 1..Len(th[t].containers_to_scan_ids) :
                LET c == th[t].containers_to_scan_ids[k]
                IN  c \in DOMAIN container_statuses' =>
                        container_statuses'[c].status \notin {"awaiting_scan", "pending"}

\* C39 as stated: resolving or ignoring an abnormality of an unhealthy
\* container sets the container to awaiting_scan; reopening an abnormality
\* sets its container to unhealthy linked to that record; the containers a
\* cycle scanned are neither awaiting_scan nor pending when it publishes.
C39_OperatorMovesHealth ==
    [][/\ (ManageCache /\ manage.target_container_id \in DOMAIN container_statuses) =>
              /\ (manage.new_status \in {"resolved", "ignored"} /\ Managed.status = "unhealthy") =>
                     ManagedAfter.status = "awaiting_scan"
              /\ manage.new_status = "unresolved" =>
                     /\ ManagedAfter.status = "unhealthy"
                     /\ ManagedAfter.db_id = manage.abnormality_id
       /\ ScannedLeaveWaiting]_vars

\* C39, amended: reopening an abnormality sets its container to unhealthy
\* linked to that record when the container is not unhealthy; a container
\* that is unhealthy already keeps its entry, link included.  Resolving or
\* ignoring moves an unhealthy container to awaiting_scan and no other; no
\* request touches the entry of another container.
C39_ReopenRelinksUnlessUnhealthy ==
    [][/\ (ManageCache /\ manage.target_container_id \in DOMAIN container_statuses) =>
              /\ (manage.new_status \in {"resolved", "ignored"} /\ Managed.status = "unhealthy") =>
                     ManagedAfter.status = "awaiting_scan"
              /\ (manage.new_status \in {"resolved", "ignored"} /\ Managed.status # "unhealthy") =>
                     ManagedAfter = Managed
              /\ (manage.new_status = "unresolved" /\ Managed.status # "unhealthy") =>
                     /\ ManagedAfter.status = "unhealthy"
                     /\ ManagedAfter.db_id = manage.abnormality_id
              /\ (manage.new_status = "unresolved" /\ Managed.status = "unhealthy") =>
                     ManagedAfter = Managed
              /\ \A c \in DOMAIN container_statuses \ {manage.target_container_id} :
                     container_statuses'[c] = container_statuses[c]
       /\ ScannedLeaveWaiting]_vars

\* After a restart gave a container with a handled record awaiting_scan, the
\* operator reopened the record: the container is unhealthy and linked to it
\* without having been checked.
C39_Witness ==
    /\ manage.pc = "idle"
    /\ \E c \in DOMAIN container_statuses :
          /\ container_statuses[c].status = "unhealthy"
          /\ container_statuses[c].last_checked = NoTime
          /\ container_statuses[c].db_id \in 1..Len(abnormalities)
          /\ abnormalities[container_statuses[c].db_id].status = "unresolved"


\* What container.logs may give that is empty or whitespace only.
BlankLogs == {raw \in LogOutcomes \ {None} : Strip(raw) = <<>>}

\* C40: an iteration that fetches empty or whitespace-only logs of a
\* container of the map sends no request to the classifier, writes nothing
\* to the store and does not go on to the store; it holds the container
\* healthy with no linked abnormality, and the bulk update of the cycle
\* publishes what is held healthy as healthy with no link.
C40_BlankLogsAreHealthy ==
    [][\A t \in Threads :
          /\ \A raw \in BlankLogs, http \in HttpOutcomes :
                (/\ th[t].pc = "loop"
                 /\ th[t].idx <= Len(th[t].containers_to_scan_ids)
                 /\ Current(t) \in DOMAIN container_statuses
                 /\ IterateWith(t, "ok", raw, http)) =>
                    /\ th'[t].classifier_output = None
                    /\ abnormalities' = abnormalities
                    /\ th'[t].pc = "loop"
                    /\ th'[t].analysis_errors_occurred = th[t].analysis_errors_occurred
                    /\ StoredResult(t).status = "healthy"
                    /\ StoredResult(t).db_id = NoId
          /\ Publishes(t) =>
                \A c \in DOMAIN container_statuses' \cap DOMAIN th[t].scan_results_temp :
                    (/\ ~th[t].scan_results_temp[c].remove
                     /\ th[t].scan_results_temp[c].entry.status = "healthy"
                     /\ th[t].scan_results_temp[c].entry.db_id = NoId) =>
                        container_statuses'[c] = th[t].scan_results_temp[c].entry]_vars

\* A cycle with the endpoint configured has published a container healthy,
\* unlinked and checked now, for which it made no request of the classifier:
\* its logs were blank.
C40_Witness ==
    \E t \in Threads :
        /\ th[t].pc = "final" /\ scan_status.running
        /\ HasResult(t)
        /\ th[t].settings_for_scan.ollama_api_url = OllamaUrl
        /\ th[t].classifier_output = None
        /\ LastResult(t).status = "healthy"
        /\ LastProcessed(t) \in DOMAIN container_statuses
        /\ container_statuses[LastProcessed(t)].status = "healthy"
        /\ container_statuses[LastProcessed(t)].db_id = NoId
        /\ container_statuses[LastProcessed(t)].last_checked = clock
        /\ abnormalities = <<>>

====
